---- MODULE Spec2Model ----
(***************************************************************************)
(* Model of the salary ledger and the ClickUp reconciliation of            *)
(* src/main.py (SalaryBot, ClickUpClient, retry_with_backoff).             *)
(*                                                                         *)
(* Number representation.  Python floats are modelled by exact integers:   *)
(*   - an amount of hours x is held as x * MsPerHour (milliseconds);       *)
(*   - an amount of money y is held as y * MsPerHour (rate is an integer   *)
(*     number of roubles per hour, so hours * rate is ms * rate).          *)
(* int(...) of a non-negative float is the integer division \div.          *)
(* Instants are milliseconds since local midnight of day 1.                *)
(***************************************************************************)
EXTENDS Integers, Sequences, FiniteSets, TLC

(***************************************************************************)
(* Bounds of the model.                                                    *)
(***************************************************************************)
MaxEntries == 2      \* time entries that exist at the remote provider
MaxManual == 1       \* manual sessions one user may enter
MaxDay == 9          \* the last day the clock reaches
MaxBuckets == 3      \* days with work in a ledger that the reports are asked on
MaxResponse == 3     \* entries in one answer of the provider, where answers are drawn
MaxClientCalls == 3  \* calls of get_team_id on one client
MaxPasses == 8       \* passes of the /monthweeks loop that are followed

Users == {"u1", "u2"}
EntryIds == 1..MaxEntries
Calls == {"a", "b"}    \* slots for the sync commands in flight

(***************************************************************************)
(* Program constants.                                                      *)
(***************************************************************************)
MsPerHour == 3600000
MsPerDay == 86400000
max_retries == 3
backoff_factor == 1
DefaultSyncDays == 7

None == "None"
ManualLabel == "Ruchnaya zapis"
NoTaskLabel == "Bez zadachi"
UnknownTaskLabel == "Neizvestnaya zadacha"
MsgNotConfigured == "ClickUp not configured"
MsgNotFound == "entries not found"

(***************************************************************************)
(* State.                                                                  *)
(***************************************************************************)
VARIABLES
    data,       \* SalaryBot.data: user id -> ledger (a dict: its domain grows)
    disk,       \* DATA_FILE: whether it exists and the document it holds
    fsm,        \* the aiogram FSM state of every user's chat
    call,       \* the sync commands in flight, one record per slot
    remote,     \* the remote provider: every time entry is running or stopped
    now,        \* the local clock, in ms (midnight passes in SpecWeek only)
    prevResp,   \* history: the entries a user's sync processed, if that sync was
                \* the user's last operation
    reply       \* the last answer the bot sent (message.answer): to whom and what

vars == <<data, disk, fsm, call, remote, now, prevResp, reply>>

(***************************************************************************)
(* The remote provider (external): a catalogue of time entries.  An entry  *)
(* is a running timer (negative duration) until it is stopped.             *)
(***************************************************************************)
RunningDuration == -1

StoppedDuration(i) ==
    CASE i % 4 = 1 -> MsPerHour              \* 1 h
      [] i % 4 = 2 -> 90000                  \* 1.5 min: not a whole minute
      [] i % 4 = 3 -> 0                      \* zero duration
      [] OTHER     -> MsPerHour + 1800000    \* 1 h 30 min

\* The entries alternate between yesterday and today.
EntryDay(i) == IF i % 2 = 1 THEN 1 ELSE 2

EntryStart(i) == (EntryDay(i) - 1) * MsPerDay + 9 * MsPerHour

EntryTask(i) ==
    CASE i % 3 = 1 -> "A"
      [] i % 3 = 2 -> None
      [] OTHER     -> "B"

RemoteEntry(i) ==
    [id |-> i,
     duration |-> IF remote[i] = "running" THEN RunningDuration
                  ELSE IF remote[i] = "stopped_at_once" THEN 0
                  ELSE StoppedDuration(i),
     start |-> EntryStart(i),
     task |-> EntryTask(i)]

RECURSIVE EntriesInWindow(_, _, _)
EntriesInWindow(i, start, end) ==
    IF i > MaxEntries THEN <<>>
    ELSE (IF start <= EntryStart(i) /\ EntryStart(i) <= end
          THEN <<RemoteEntry(i)>> ELSE <<>>) \o EntriesInWindow(i + 1, start, end)

RemoteTeams == <<"90000001">>

(***************************************************************************)
(* Floats.  Rates and earnings are floats: float() also parses the text    *)
(* "nan", and the value it gives compares False with every number and      *)
(* turns every product and sum into itself.  NaN stands for that value.    *)
(***************************************************************************)
NaN == -2000000000

IsNaN(x) == x = NaN

FloatLeq(x, y) == ~IsNaN(x) /\ ~IsNaN(y) /\ x <= y

FloatGt(x, y) == ~IsNaN(x) /\ ~IsNaN(y) /\ x > y

FloatTimes(x, y) == IF IsNaN(x) \/ IsNaN(y) THEN NaN ELSE x * y

FloatPlus(x, y) == IF IsNaN(x) \/ IsNaN(y) THEN NaN ELSE x + y

(***************************************************************************)
(* Ledger store.                                                           *)
(***************************************************************************)
DefaultSettings ==
    [api_token |-> None, workspace_id |-> None, team_id |-> None,
     user_id |-> None, username |-> None]

ResetSettings == [api_token |-> None, workspace_id |-> None, team_id |-> None]

DefaultUser ==
    [rate |-> 0,
     work_sessions |-> <<>>,
     clickup_synced_entries |-> {},
     clickup_settings |-> DefaultSettings]

NormalizeSettings(s) ==
    IF "user_id" \in DOMAIN s THEN s
    ELSE [api_token |-> s.api_token, workspace_id |-> s.workspace_id,
          team_id |-> s.team_id, user_id |-> None, username |-> None]

\* The ledger of a user as get_user_data would find or create it.
LedgerOf(d, u) == IF u \in DOMAIN d THEN d[u] ELSE DefaultUser

get_user_data(d, u) ==
    IF u \notin DOMAIN d THEN d @@ (u :> DefaultUser)
    ELSE [d EXCEPT ![u].clickup_settings = NormalizeSettings(@)]

RECURSIVE SetToList(_)
SetToList(S) ==
    IF S = {} THEN <<>>
    ELSE LET m == CHOOSE x \in S : \A y \in S : x <= y
         IN <<m>> \o SetToList(S \ {m})

ListToSet(l) == {l[k] : k \in DOMAIN l}

\* Faulty variant: the synchronised ids are written as an empty list.
save_data_NoIds(d) ==
    [u \in DOMAIN d |->
        [d[u] EXCEPT !.clickup_synced_entries = <<>>]]

save_data(d) ==
    [u \in DOMAIN d |->
        [d[u] EXCEPT !.clickup_synced_entries = SetToList(@)]]

\* A call returns a value or raises an exception.
NoExc == [exc |-> "-", msg |-> "-"]

Return(v) == [kind |-> "return", value |-> v, error |-> NoExc]

Raise(exc, msg) == [kind |-> "raise", value |-> None, error |-> [exc |-> exc, msg |-> msg]]

\* The file: whether it exists, what open() and json.load make of it ("ok",
\* "unreadable": open() raises, "garbage": not JSON, "not_object": JSON but
\* not an object of objects), and the document last written to it.
NoFile == [exists |-> FALSE, state |-> "ok", doc |-> <<>>]

WriteFile(doc) == [exists |-> TRUE, state |-> "ok", doc |-> doc]

\* What the body of the try block of load_data does with an existing file.
ReadFile(file) ==
    IF file.state = "unreadable" THEN Raise("OSError", "open")
    ELSE IF file.state = "garbage" THEN Raise("JSONDecodeError", "json.load")
    ELSE IF file.state = "not_object" THEN Raise("AttributeError", "items")
    ELSE Return([u \in DOMAIN file.doc |->
                    [file.doc[u] EXCEPT !.clickup_synced_entries = ListToSet(@)]])

\* Faulty variant: a file that cannot be parsed is taken for what was last
\* written to it.
load_data_Stale(file) ==
    IF file.exists
    THEN [u \in DOMAIN file.doc |->
            [file.doc[u] EXCEPT !.clickup_synced_entries = ListToSet(@)]]
    ELSE <<>>

load_data(file) ==
    IF file.exists
    THEN (IF ReadFile(file).kind = "return" THEN ReadFile(file).value ELSE <<>>)
    ELSE <<>>

NewBucket == [total_hours |-> 0, total_earnings |-> 0, sessions |-> <<>>]

EnsureBucket(ws, date) == IF date \in DOMAIN ws THEN ws ELSE ws @@ (date :> NewBucket)

DateOf(instant) == (instant \div MsPerDay) + 1

Today == DateOf(now)

NoClient == [api_token |-> None, workspace_id |-> None, team_id |-> None]

\* Faulty variant: a client is built as soon as there is a token.
get_user_clickup_client_TokenOnly(d, u) ==
    LET s == get_user_data(d, u)[u].clickup_settings
    IN IF s.api_token = None THEN NoClient
       ELSE [api_token |-> s.api_token, workspace_id |-> s.workspace_id, team_id |-> None]

get_user_clickup_client(d, u) ==
    LET s == get_user_data(d, u)[u].clickup_settings
    IN IF s.api_token = None \/ s.workspace_id = None THEN NoClient
       ELSE [api_token |-> s.api_token, workspace_id |-> s.workspace_id, team_id |-> None]

(***************************************************************************)
(* retry_with_backoff and the two request functions it wraps.              *)
(* A response is what the transport delivers: an HTTP status, or an        *)
(* exception of the HTTP library (a connection error is an                 *)
(* aiohttp.ClientError, a timeout is an asyncio.TimeoutError).             *)
(***************************************************************************)
Statuses == {200, 401, 403, 429, 500}

Responses ==
    {[transport |-> "ok", status |-> s] : s \in Statuses}
    \cup {[transport |-> "conn_error", status |-> 0],
          [transport |-> "timeout", status |-> 0]}

NoResponse == [transport |-> "-", status |-> 0]

TransportError(resp) ==
    IF resp.transport = "conn_error" THEN Raise("ClientError", "connection")
    ELSE Raise("TimeoutError", "timeout")

ResolveTeam(teams, workspace_id) ==
    IF \E k \in DOMAIN teams : teams[k] = workspace_id THEN workspace_id
    ELSE IF teams # <<>> THEN teams[1]
    ELSE None

fetch_team_id(resp, teams, workspace_id) ==
    IF resp.transport # "ok" THEN TransportError(resp)
    ELSE IF resp.status = 200 THEN Return(ResolveTeam(teams, workspace_id))
    ELSE IF resp.status = 401 THEN Raise("ValueError", "bad token")
    ELSE IF resp.status = 403 THEN Raise("ValueError", "no access")
    ELSE Raise("ClientError", "HTTP")

fetch_time_entries(resp, entries) ==
    IF resp.transport # "ok" THEN TransportError(resp)
    ELSE IF resp.status = 200 THEN Return(entries)
    ELSE IF resp.status = 401 THEN Raise("ValueError", "bad token")
    ELSE IF resp.status = 403 THEN Raise("ValueError", "no access to entries")
    ELSE IF resp.status = 429 THEN Raise("ClientError", "rate limit")
    ELSE Raise("ClientError", "HTTP")

IsClientError(outcome) == outcome.kind = "raise" /\ outcome.error.exc = "ClientError"

\* Faulty variant: the wait does not grow with the attempt.
retry_with_backoff_ConstantWait(attempt, outcome) ==
    IF outcome.kind = "return" THEN [do |-> "return", wait |-> 0]
    ELSE IF IsClientError(outcome)
         THEN IF attempt = max_retries - 1 THEN [do |-> "raise", wait |-> 0]
              ELSE [do |-> "sleep", wait |-> backoff_factor]
         ELSE [do |-> "raise", wait |-> 0]

\* Faulty variant: the last attempt is recognised one iteration late.
retry_with_backoff_OffByOne(attempt, outcome) ==
    IF outcome.kind = "return" THEN [do |-> "return", wait |-> 0]
    ELSE IF IsClientError(outcome)
         THEN IF attempt = max_retries THEN [do |-> "raise", wait |-> 0]
              ELSE [do |-> "sleep", wait |-> backoff_factor * (2 ^ attempt)]
         ELSE [do |-> "raise", wait |-> 0]

\* Faulty variant: every exception is retried, not only aiohttp.ClientError.
retry_with_backoff_RetryAll(attempt, outcome) ==
    IF outcome.kind = "return" THEN [do |-> "return", wait |-> 0]
    ELSE IF attempt = max_retries - 1 THEN [do |-> "raise", wait |-> 0]
    ELSE [do |-> "sleep", wait |-> backoff_factor * (2 ^ attempt)]

\* One iteration of the loop of retry_with_backoff, for loop index attempt:
\* the result of func() is returned, or its failure is raised, or the loop
\* sleeps and goes on.
retry_with_backoff(attempt, outcome) ==
    IF outcome.kind = "return" THEN [do |-> "return", wait |-> 0]
    ELSE IF IsClientError(outcome)
         THEN IF attempt = max_retries - 1 THEN [do |-> "raise", wait |-> 0]
              ELSE [do |-> "sleep", wait |-> backoff_factor * (2 ^ attempt)]
         ELSE [do |-> "raise", wait |-> 0]

(***************************************************************************)
(* sync_clickup_entries: the loop over the fetched entries.                *)
(***************************************************************************)
TaskName(entry) == IF entry.task = None THEN NoTaskLabel ELSE entry.task

ClickupSession(entry, rate) ==
    [hours |-> entry.duration \div MsPerHour,
     minutes |-> ((entry.duration % MsPerHour) * 60) \div MsPerHour,
     earnings |-> entry.duration * rate,
     timestamp |-> entry.start \div 1000,
     source |-> "clickup",
     clickup_id |-> entry.id,
     task_name |-> TaskName(entry),
     description |-> ""]

\* Faulty variant: the day's earnings total is advanced by the hours.
AppendSession_HoursAsEarnings(ws, date, session, hours, earnings) ==
    LET w == EnsureBucket(ws, date)
    IN [w EXCEPT ![date] =
            [total_hours |-> @.total_hours + hours,
             total_earnings |-> @.total_earnings + hours,
             sessions |-> Append(@.sessions, session)]]

AppendSession(ws, date, session, hours, earnings) ==
    LET w == EnsureBucket(ws, date)
    IN [w EXCEPT ![date] =
            [total_hours |-> @.total_hours + hours,
             total_earnings |-> FloatPlus(@.total_earnings, earnings),
             sessions |-> Append(@.sessions, session)]]

NoTotals == [synced_count |-> 0, total_hours |-> 0, total_earnings |-> 0]

\* Faulty variant: the session is filed under the date of the sync.
Absorb_SyncDate(ud, entry) ==
    [ud EXCEPT
        !.work_sessions =
            AppendSession(@, DateOf(now), ClickupSession(entry, ud.rate),
                          entry.duration, entry.duration * ud.rate),
        !.clickup_synced_entries = @ \cup {entry.id}]

\* Faulty variant: the entry is appended but its id is not marked as synchronised.
Absorb_NoMark(ud, entry) ==
    [ud EXCEPT
        !.work_sessions =
            AppendSession(@, DateOf(entry.start), ClickupSession(entry, ud.rate),
                          entry.duration, entry.duration * ud.rate)]

Absorb(ud, entry) ==
    [ud EXCEPT
        !.work_sessions =
            AppendSession(@, DateOf(entry.start), ClickupSession(entry, ud.rate),
                          entry.duration, entry.duration * ud.rate),
        !.clickup_synced_entries = @ \cup {entry.id}]

Count(acc, entry, rate) ==
    [synced_count |-> acc.synced_count + 1,
     total_hours |-> acc.total_hours + entry.duration,
     total_earnings |-> acc.total_earnings + entry.duration * rate]

\* Faulty variant: an entry of no duration is skipped like a running timer.
RECURSIVE SyncLoop_SkipsZero(_, _, _)
SyncLoop_SkipsZero(entries, ud, acc) ==
    IF entries = <<>> THEN [user_data |-> ud, totals |-> acc]
    ELSE LET entry == Head(entries)
         IN IF entry.duration <= 0 THEN SyncLoop_SkipsZero(Tail(entries), ud, acc)
            ELSE IF entry.id \in ud.clickup_synced_entries
                 THEN SyncLoop_SkipsZero(Tail(entries), ud, acc)
            ELSE SyncLoop_SkipsZero(Tail(entries), Absorb(ud, entry),
                                    Count(acc, entry, ud.rate))

\* Faulty variant: an entry that was synchronised before is counted again.
RECURSIVE SyncLoop_CountsSkipped(_, _, _)
SyncLoop_CountsSkipped(entries, ud, acc) ==
    IF entries = <<>> THEN [user_data |-> ud, totals |-> acc]
    ELSE LET entry == Head(entries)
         IN IF entry.duration < 0 THEN SyncLoop_CountsSkipped(Tail(entries), ud, acc)
            ELSE IF entry.id \in ud.clickup_synced_entries
                 THEN SyncLoop_CountsSkipped(Tail(entries), ud, Count(acc, entry, ud.rate))
            ELSE SyncLoop_CountsSkipped(Tail(entries), Absorb(ud, entry),
                                        Count(acc, entry, ud.rate))

\* Faulty variant: the loop does not look the id up among the synchronised entries.
RECURSIVE SyncLoop_NoGuard(_, _, _)
SyncLoop_NoGuard(entries, ud, acc) ==
    IF entries = <<>> THEN [user_data |-> ud, totals |-> acc]
    ELSE LET entry == Head(entries)
         IN IF entry.duration < 0 THEN SyncLoop_NoGuard(Tail(entries), ud, acc)
            ELSE SyncLoop_NoGuard(Tail(entries), Absorb(ud, entry),
                                  Count(acc, entry, ud.rate))

\* Faulty variant: a running timer is marked as synchronised when it is skipped.
RECURSIVE SyncLoop_MarksRunning(_, _, _)
SyncLoop_MarksRunning(entries, ud, acc) ==
    IF entries = <<>> THEN [user_data |-> ud, totals |-> acc]
    ELSE LET entry == Head(entries)
         IN IF entry.id \in ud.clickup_synced_entries
            THEN SyncLoop_MarksRunning(Tail(entries), ud, acc)
            ELSE IF entry.duration < 0
                 THEN SyncLoop_MarksRunning(Tail(entries),
                        [ud EXCEPT !.clickup_synced_entries = @ \cup {entry.id}], acc)
            ELSE SyncLoop_MarksRunning(Tail(entries), Absorb(ud, entry),
                                       Count(acc, entry, ud.rate))

RECURSIVE SyncLoop(_, _, _)
SyncLoop(entries, ud, acc) ==
    IF entries = <<>> THEN [user_data |-> ud, totals |-> acc]
    ELSE LET entry == Head(entries)
         IN IF entry.duration < 0 THEN SyncLoop(Tail(entries), ud, acc)
            ELSE IF entry.id \in ud.clickup_synced_entries
                 THEN SyncLoop(Tail(entries), ud, acc)
            ELSE SyncLoop(Tail(entries), Absorb(ud, entry), Count(acc, entry, ud.rate))

(***************************************************************************)
(* Initial state: the bot is constructed with no data file.                *)
(***************************************************************************)
NoResult == [success |-> FALSE, error |-> "-"]

NoPrev == [valid |-> FALSE, entries |-> <<>>]

\* Inside retry_with_backoff: nreq counts the invocations of func() so far (it
\* is the loop index of the next iteration), last is the last response of the
\* transport, caught the class of the exception the loop caught last, slept
\* the waits slept so far.  When get_time_entries is left: err is the
\* exception that left retry_with_backoff, failed the step that failed.
\* History: before is SalaryBot.data when sync_clickup_entries was entered and
\* then when its loop was entered, prev is prevResp at that moment, known the
\* user's clickup_synced_entries when the entries were fetched, calls the
\* get_team_id calls made on the client so far: what each returned and how
\* many requests it sent.
IdleCall ==
    [pc |-> "idle", user |-> "-", days |-> 0, start |-> 0, end |-> 0,
     client |-> NoClient, nreq |-> 0, caught |-> "-", slept |-> <<>>,
     last |-> NoResponse, err |-> NoExc, entries |-> <<>>, failed |-> "-",
     result |-> NoResult, before |-> <<>>, prev |-> NoPrev, known |-> {},
     calls |-> <<>>]

NoReply == [to |-> "-", text |-> "-"]

Answer(u, text) == [to |-> u, text |-> text]

Init ==
    /\ disk = NoFile
    /\ data = load_data(NoFile)
    /\ fsm = [u \in Users |-> "none"]
    /\ call = [c \in Calls |-> IdleCall]
    /\ remote = [i \in EntryIds |-> "running"]
    /\ now = MsPerDay + 18 * MsPerHour
    /\ prevResp = [u \in Users |-> NoPrev]
    /\ reply = NoReply

(***************************************************************************)
(* What users type.                                                        *)
(***************************************************************************)
RateTexts ==
    {[numeric |-> FALSE, value |-> 0]}
    \cup {[numeric |-> TRUE, value |-> v] : v \in {-1, 0, 1, 2}}

TimeTexts ==
    {[nparts |-> 1, ints |-> TRUE, hours |-> 0, minutes |-> 0],
     [nparts |-> 2, ints |-> FALSE, hours |-> 0, minutes |-> 0]}
    \cup {[nparts |-> 2, ints |-> TRUE, hours |-> h, minutes |-> m] :
             h \in {-1, 0}, m \in {-1, 0, 30, 60}}

GoodToken == "pk_0123456789abcdefg"
TokenTexts == {GoodToken, "pk_short", "token_0123456789abcdefg"}
TokenFormatOK(t) == t = GoodToken

WorkspaceTexts == {"90000001", "9000000x", "9000001"}
WorkspaceFormatOK(w) == w = "90000001"

TeamLists == {<<>>, RemoteTeams}

ValidationResults(workspace_id) ==
    {[success |-> FALSE, team_id |-> None, user_id |-> None, username |-> None],
     [success |-> TRUE, team_id |-> ResolveTeam(RemoteTeams, workspace_id),
      user_id |-> "7", username |-> "worker"]}

SyncDays == {DefaultSyncDays}

ManualIn(bucket) ==
    Cardinality({k \in DOMAIN bucket.sessions : bucket.sessions[k].source = "manual"})

RECURSIVE ManualInDates(_, _)
ManualInDates(ws, D) ==
    IF D = {} THEN 0
    ELSE LET d == CHOOSE x \in D : TRUE
         IN ManualIn(ws[d]) + ManualInDates(ws, D \ {d})

ManualCount(u) ==
    IF u \notin DOMAIN data THEN 0
    ELSE ManualInDates(data[u].work_sessions, DOMAIN data[u].work_sessions)

(***************************************************************************)
(* Command handlers.  A message is handled by the first registered handler *)
(* whose filter matches, so a handler registered after a state handler     *)
(* runs only when the chat is not in that state.                           *)
(***************************************************************************)
Persist(d) == WriteFile(save_data(d))

start_command(u) ==
    /\ data' = get_user_data(data, u)
    /\ reply' = Answer(u, "welcome")
    /\ UNCHANGED <<disk, fsm, call, remote, now, prevResp>>

help_command(u) ==
    /\ reply' = Answer(u, "help")
    /\ UNCHANGED <<data, disk, fsm, call, remote, now, prevResp>>

set_rate_command(u) ==
    /\ fsm' = [fsm EXCEPT ![u] = "waiting_for_rate"]
    /\ reply' = Answer(u, "ask_rate")
    /\ UNCHANGED <<data, disk, call, remote, now, prevResp>>

\* Faulty variant: a new rate re-prices the days already recorded.
process_rate_Reprice(u, text) ==
    /\ fsm[u] = "waiting_for_rate"
    /\ IF text.numeric /\ text.value > 0
       THEN /\ LET ws == get_user_data(data, u)[u].work_sessions
               IN data' = [get_user_data(data, u) EXCEPT
                             ![u].rate = text.value,
                             ![u].work_sessions =
                                 [d \in DOMAIN ws |->
                                     [ws[d] EXCEPT
                                         !.total_earnings = ws[d].total_hours * text.value]]]
            /\ disk' = Persist(data')
            /\ fsm' = [fsm EXCEPT ![u] = "none"]
            /\ prevResp' = [prevResp EXCEPT ![u] = NoPrev]
            /\ reply' = Answer(u, "rate_set")
       ELSE /\ reply' = Answer(u, IF text.numeric THEN "rate_not_positive"
                                  ELSE "rate_not_number")
            /\ UNCHANGED <<data, disk, fsm, prevResp>>
    /\ UNCHANGED <<call, remote, now>>

\* Faulty variant: a rate of zero is accepted.
process_rate_AcceptsZero(u, text) ==
    /\ fsm[u] = "waiting_for_rate"
    /\ IF text.numeric /\ text.value >= 0
       THEN /\ data' = [get_user_data(data, u) EXCEPT ![u].rate = text.value]
            /\ disk' = Persist(data')
            /\ fsm' = [fsm EXCEPT ![u] = "none"]
            /\ prevResp' = [prevResp EXCEPT ![u] = NoPrev]
            /\ reply' = Answer(u, "rate_set")
       ELSE /\ reply' = Answer(u, IF text.numeric THEN "rate_not_positive"
                                  ELSE "rate_not_number")
            /\ UNCHANGED <<data, disk, fsm, prevResp>>
    /\ UNCHANGED <<call, remote, now>>

process_rate(u, text) ==
    /\ fsm[u] = "waiting_for_rate"
    /\ IF text.numeric /\ ~FloatLeq(text.value, 0)
       THEN /\ data' = [get_user_data(data, u) EXCEPT ![u].rate = text.value]
            /\ disk' = Persist(data')
            /\ fsm' = [fsm EXCEPT ![u] = "none"]
            /\ prevResp' = [prevResp EXCEPT ![u] = NoPrev]
            /\ reply' = Answer(u, "rate_set")
       ELSE /\ reply' = Answer(u, IF text.numeric THEN "rate_not_positive"
                                  ELSE "rate_not_number")
            /\ UNCHANGED <<data, disk, fsm, prevResp>>
    /\ UNCHANGED <<call, remote, now>>

add_time_command(u) ==
    /\ fsm[u] # "waiting_for_rate"
    /\ data' = get_user_data(data, u)
    /\ fsm' = IF FloatLeq(data'[u].rate, 0) THEN fsm
              ELSE [fsm EXCEPT ![u] = "waiting_for_time"]
    /\ reply' = Answer(u, IF FloatLeq(data'[u].rate, 0) THEN "need_rate" ELSE "ask_time")
    /\ UNCHANGED <<disk, call, remote, now, prevResp>>

ManualSession(hours, minutes, earnings) ==
    [hours |-> hours, minutes |-> minutes, earnings |-> earnings,
     timestamp |-> now \div 1000, source |-> "manual"]

\* Faulty variant: 60 minutes pass the range check.
process_time_SixtyMinutes(u, text) ==
    /\ fsm[u] = "waiting_for_time"
    /\ IF text.nparts = 2 /\ text.ints
          /\ ~(text.hours < 0 \/ text.minutes < 0 \/ text.minutes > 60)
       THEN LET d == get_user_data(data, u)
                total_hours == text.hours * MsPerHour + text.minutes * (MsPerHour \div 60)
                earnings == total_hours * d[u].rate
            IN /\ data' = [d EXCEPT ![u].work_sessions =
                              AppendSession(@, Today,
                                  ManualSession(text.hours, text.minutes, earnings),
                                  total_hours, earnings)]
               /\ disk' = Persist(data')
               /\ fsm' = [fsm EXCEPT ![u] = "none"]
               /\ prevResp' = [prevResp EXCEPT ![u] = NoPrev]
               /\ reply' = Answer(u, "time_added")
       ELSE /\ reply' = Answer(u, IF text.nparts # 2 THEN "time_bad_format"
                                  ELSE IF ~text.ints THEN "time_not_number"
                                  ELSE "time_invalid")
            /\ UNCHANGED <<data, disk, fsm, prevResp>>
    /\ UNCHANGED <<call, remote, now>>

process_time(u, text) ==
    /\ fsm[u] = "waiting_for_time"
    /\ IF text.nparts = 2 /\ text.ints
          /\ ~(text.hours < 0 \/ text.minutes < 0 \/ text.minutes >= 60)
       THEN LET d == get_user_data(data, u)
                total_hours == text.hours * MsPerHour + text.minutes * (MsPerHour \div 60)
                earnings == FloatTimes(total_hours, d[u].rate)
            IN /\ data' = [d EXCEPT ![u].work_sessions =
                              AppendSession(@, Today,
                                  ManualSession(text.hours, text.minutes, earnings),
                                  total_hours, earnings)]
               /\ disk' = Persist(data')
               /\ fsm' = [fsm EXCEPT ![u] = "none"]
               /\ prevResp' = [prevResp EXCEPT ![u] = NoPrev]
               /\ reply' = Answer(u, "time_added")
       ELSE /\ reply' = Answer(u, IF text.nparts # 2 THEN "time_bad_format"
                                  ELSE IF ~text.ints THEN "time_not_number"
                                  ELSE "time_invalid")
            /\ UNCHANGED <<data, disk, fsm, prevResp>>
    /\ UNCHANGED <<call, remote, now>>

clickup_token_command(u) ==
    /\ fsm[u] \notin {"waiting_for_rate", "waiting_for_time"}
    /\ fsm' = [fsm EXCEPT ![u] = "waiting_for_clickup_token"]
    /\ reply' = Answer(u, "ask_token")
    /\ UNCHANGED <<data, disk, call, remote, now, prevResp>>

process_clickup_token(u, token) ==
    /\ fsm[u] = "waiting_for_clickup_token"
    /\ IF TokenFormatOK(token)
       THEN /\ data' = [get_user_data(data, u) EXCEPT ![u].clickup_settings.api_token = token]
            /\ disk' = Persist(data')
            /\ fsm' = [fsm EXCEPT ![u] = "none"]
            /\ reply' = Answer(u, "token_saved")
       ELSE /\ reply' = Answer(u, "token_bad_format")
            /\ UNCHANGED <<data, disk, fsm>>
    /\ UNCHANGED <<call, remote, now, prevResp>>

clickup_workspace_command(u) ==
    /\ fsm[u] \notin {"waiting_for_rate", "waiting_for_time", "waiting_for_clickup_token"}
    /\ fsm' = [fsm EXCEPT ![u] = "waiting_for_workspace_id"]
    /\ reply' = Answer(u, "ask_workspace")
    /\ UNCHANGED <<data, disk, call, remote, now, prevResp>>

process_workspace_id(u, workspace_id, validation_result) ==
    /\ fsm[u] = "waiting_for_workspace_id"
    /\ IF ~WorkspaceFormatOK(workspace_id)
       THEN /\ reply' = Answer(u, "workspace_bad_format")
            /\ UNCHANGED <<data, disk, fsm>>
       ELSE LET d == get_user_data(data, u)
            IN IF d[u].clickup_settings.api_token = None
               THEN /\ data' = d
                    /\ reply' = Answer(u, "need_token")
                    /\ UNCHANGED <<disk, fsm>>
               ELSE /\ IF validation_result.success
                       THEN /\ data' = [d EXCEPT ![u].clickup_settings =
                                          [@ EXCEPT !.workspace_id = workspace_id,
                                                    !.team_id = validation_result.team_id,
                                                    !.user_id = validation_result.user_id,
                                                    !.username = validation_result.username]]
                            /\ disk' = Persist(data')
                            /\ reply' = Answer(u, "connected")
                       ELSE /\ data' = d
                            /\ reply' = Answer(u, "connect_failed")
                            /\ UNCHANGED disk
                    /\ fsm' = [fsm EXCEPT ![u] = "none"]
    /\ UNCHANGED <<call, remote, now, prevResp>>

\* Faulty variant: the reset also forgets the synchronised entries.
clickup_reset_command_Forget(u) ==
    /\ fsm[u] = "none"
    /\ data' = [get_user_data(data, u) EXCEPT ![u].clickup_settings = ResetSettings,
                                              ![u].clickup_synced_entries = {}]
    /\ disk' = Persist(data')
    /\ prevResp' = [prevResp EXCEPT ![u] = NoPrev]
    /\ reply' = Answer(u, "reset_done")
    /\ UNCHANGED <<fsm, call, remote, now>>

clickup_reset_command(u) ==
    /\ fsm[u] = "none"
    /\ data' = [get_user_data(data, u) EXCEPT ![u].clickup_settings = ResetSettings]
    /\ disk' = Persist(data')
    /\ prevResp' = [prevResp EXCEPT ![u] = NoPrev]
    /\ reply' = Answer(u, "reset_done")
    /\ UNCHANGED <<fsm, call, remote, now>>

(***************************************************************************)
(* The queries.  Dates are day numbers: day 1 is a Sunday and the first of *)
(* a month of 31 days, day 2 (the day the bot is started) a Monday; the    *)
(* month before has 31 days too, from day -30 (a Thursday) to day 0.       *)
(* These are July and August of 2021: the year runs from day -211 to day   *)
(* 153, and MonthStarts lists the first days of its twelve months.         *)
(* Every query is registered after the four state handlers, so it runs     *)
(* only when the chat is in no state.                                      *)
(***************************************************************************)
Weekday(date) == (date + 5) % 7       \* datetime.weekday(): 0 is Monday

MonthStarts == <<-211, -180, -152, -121, -91, -60, -30, 1, 32, 62, 93, 123>>

\* date.year, for the dates of three years.
YearOf(date) == IF date >= 154 THEN 2022 ELSE IF date >= -211 THEN 2021 ELSE 2020

\* date.month, for the dates of 2021.
MonthOf(date) == Cardinality({m \in DOMAIN MonthStarts : MonthStarts[m] <= date})

\* date.replace(day=1), for the dates of 2021.
MonthFirst(date) == MonthStarts[MonthOf(date)]

\* The last day of the month of the date: the 31st in December, else the day
\* before the first of the next month.
MonthLast(date) ==
    IF MonthOf(date) = 12 THEN MonthFirst(date) + 30
    ELSE MonthStarts[MonthOf(date) + 1] - 1

\* The date of datetime.now() - timedelta(days=k).
DaysAgo(k) == Today - k

NoWork == [total_hours |-> 0, total_earnings |-> 0, days_worked |-> 0]

\* The loop "while current_date <= last": the buckets of the dates from date
\* to last are added up, and the dates that have a bucket are counted.
RECURSIVE SumBuckets(_, _, _)
SumBuckets(ws, date, last) ==
    IF date > last THEN NoWork
    ELSE LET rest == SumBuckets(ws, date + 1, last)
         IN IF date \in DOMAIN ws
            THEN [total_hours |-> ws[date].total_hours + rest.total_hours,
                  total_earnings |-> FloatPlus(ws[date].total_earnings, rest.total_earnings),
                  days_worked |-> 1 + rest.days_worked]
            ELSE rest

AnswerTotals(u, text, totals) ==
    [to |-> u, text |-> text, days_worked |-> totals.days_worked,
     total_hours |-> totals.total_hours, total_earnings |-> totals.total_earnings]

\* a / b: the quotient is kept as the pair of its terms; a divisor of 0 raises.
Quotient(a, b) ==
    IF b = 0 THEN Raise("ZeroDivisionError", "division by zero") ELSE Return(<<a, b>>)

\* The answer that also shows the average per worked day.
WithAverage(answer, totals) ==
    ("average" :> Quotient(totals.total_earnings, totals.days_worked)) @@ answer

\* Faulty variant: the average is computed whether or not a day was worked.
AnswerPeriod_Unguarded(u, text, totals) ==
    WithAverage(AnswerTotals(u, IF totals.days_worked > 0 THEN text ELSE text \o "_none",
                             totals), totals)

\* "if days_worked > 0": the totals and the average, else the text that there
\* are no records.
AnswerPeriod(u, text, totals) ==
    IF totals.days_worked > 0
    THEN WithAverage(AnswerTotals(u, text, totals), totals)
    ELSE AnswerTotals(u, text \o "_none", totals)

today_command(u) ==
    /\ fsm[u] = "none"
    /\ data' = get_user_data(data, u)
    /\ reply' = LET ws == data'[u].work_sessions
                IN IF Today \in DOMAIN ws
                   THEN AnswerTotals(u, "today", SumBuckets(ws, Today, Today))
                   ELSE Answer(u, "today_none")
    /\ UNCHANGED <<disk, fsm, call, remote, now, prevResp>>

yesterday_command(u) ==
    /\ fsm[u] = "none"
    /\ data' = get_user_data(data, u)
    /\ reply' = LET ws == data'[u].work_sessions
                    yesterday == DaysAgo(1)
                IN IF yesterday \in DOMAIN ws
                   THEN AnswerTotals(u, "yesterday", SumBuckets(ws, yesterday, yesterday))
                   ELSE Answer(u, "yesterday_none")
    /\ UNCHANGED <<disk, fsm, call, remote, now, prevResp>>

\* Faulty variant: the week is the last seven days.
week_command_LastSevenDays(u) ==
    /\ fsm[u] = "none"
    /\ data' = get_user_data(data, u)
    /\ reply' = LET totals == SumBuckets(data'[u].work_sessions, Today - 6, Today)
                IN AnswerPeriod(u, "week", totals)
    /\ UNCHANGED <<disk, fsm, call, remote, now, prevResp>>

week_command(u) ==
    /\ fsm[u] = "none"
    /\ data' = get_user_data(data, u)
    /\ reply' = LET monday == DaysAgo(Weekday(Today))
                    totals == SumBuckets(data'[u].work_sessions, monday, Today)
                IN AnswerPeriod(u, "week", totals)
    /\ UNCHANGED <<disk, fsm, call, remote, now, prevResp>>

\* One line of /weekdetails for every day from Monday to today.
DayLines(ws, monday, last) ==
    [k \in 1..(last - monday + 1) |->
        LET date == monday + k - 1
        IN IF date \in DOMAIN ws
           THEN [day_index |-> k - 1, hours |-> ws[date].total_hours,
                 earnings |-> ws[date].total_earnings]
           ELSE [day_index |-> k - 1, hours |-> 0, earnings |-> 0]]

week_details_command(u) ==
    /\ fsm[u] = "none"
    /\ data' = get_user_data(data, u)
    /\ reply' = LET monday == DaysAgo(Weekday(Today))
                    ws == data'[u].work_sessions
                    totals == SumBuckets(ws, monday, Today)
                IN [to |-> u,
                    text |-> IF totals.total_hours > 0 THEN "weekdetails"
                             ELSE "weekdetails_none",
                    lines |-> DayLines(ws, monday, Today),
                    total_hours |-> totals.total_hours,
                    total_earnings |-> totals.total_earnings]
    /\ UNCHANGED <<disk, fsm, call, remote, now, prevResp>>

MonthDays == 30

\* Faulty variant: the month is the calendar month, from its first day.
month_command_CalendarMonth(u) ==
    /\ fsm[u] = "none"
    /\ data' = get_user_data(data, u)
    /\ reply' = LET totals == SumBuckets(data'[u].work_sessions, MonthFirst(Today), Today)
                IN AnswerPeriod(u, "month", totals)
    /\ UNCHANGED <<disk, fsm, call, remote, now, prevResp>>

month_command(u) ==
    /\ fsm[u] = "none"
    /\ data' = get_user_data(data, u)
    /\ reply' = LET totals == SumBuckets(data'[u].work_sessions,
                                         DaysAgo(MonthDays - 1), Today)
                IN AnswerPeriod(u, "month", totals)
    /\ UNCHANGED <<disk, fsm, call, remote, now, prevResp>>

(***************************************************************************)
(* /monthweeks: the current month, week by week.                           *)
(***************************************************************************)
Min(a, b) == IF a <= b THEN a ELSE b

\* Faulty variant: the number counts the weeks that are listed.
RECURSIVE MonthWeeks_NumbersListed(_, _, _)
MonthWeeks_NumbersListed(ws, current_start, week_number) ==
    IF ~(current_start <= Today /\ MonthFirst(current_start) = MonthFirst(Today)) THEN <<>>
    ELSE LET first_day_of_month == MonthFirst(Today)
             days_until_sunday == (6 - Weekday(current_start)) % 7
             week_end == Min(IF current_start = first_day_of_month
                             THEN current_start + days_until_sunday
                             ELSE current_start + 6,
                             Min(MonthLast(Today), Today))
             week == SumBuckets(ws, current_start, week_end)
             next_start == IF current_start = first_day_of_month
                           THEN current_start + days_until_sunday + 1
                           ELSE current_start + 7
         IN <<[number |-> week_number, start |-> current_start, end |-> week_end,
               hours |-> week.total_hours, earnings |-> week.total_earnings]>>
            \o MonthWeeks_NumbersListed(ws, next_start,
                    IF week.total_hours > 0 THEN week_number + 1 ELSE week_number)

\* Faulty variant: every week is seven days from its start, the first too.
RECURSIVE MonthWeeks_SevenDays(_, _, _)
MonthWeeks_SevenDays(ws, current_start, week_number) ==
    IF ~(current_start <= Today /\ MonthFirst(current_start) = MonthFirst(Today)) THEN <<>>
    ELSE LET week_end == Min(current_start + 6, Min(MonthLast(Today), Today))
             week == SumBuckets(ws, current_start, week_end)
         IN <<[number |-> week_number, start |-> current_start, end |-> week_end,
               hours |-> week.total_hours, earnings |-> week.total_earnings]>>
            \o MonthWeeks_SevenDays(ws, current_start + 7, week_number + 1)

\* The loop "while current_start <= today and current_start.month ==
\* today.month": one record for every pass, with the number, the span and
\* the sums of the week of that pass.
RECURSIVE MonthWeeks(_, _, _)
MonthWeeks(ws, current_start, week_number) ==
    IF ~(current_start <= Today /\ MonthFirst(current_start) = MonthFirst(Today)) THEN <<>>
    ELSE LET first_day_of_month == MonthFirst(Today)
             days_until_sunday == (6 - Weekday(current_start)) % 7
             week_end == Min(IF current_start = first_day_of_month
                             THEN current_start + days_until_sunday
                             ELSE current_start + 6,
                             Min(MonthLast(Today), Today))
             week == SumBuckets(ws, current_start, week_end)
             next_start == IF current_start = first_day_of_month
                           THEN current_start + days_until_sunday + 1
                           ELSE current_start + 7
         IN <<[number |-> week_number, start |-> current_start, end |-> week_end,
               hours |-> week.total_hours, earnings |-> week.total_earnings]>>
            \o MonthWeeks(ws, next_start, week_number + 1)

\* weeks_data: the weeks of the loop that have hours.
WithHours(week) == week.hours > 0

RECURSIVE SumWeeks(_)
SumWeeks(weeks) ==
    IF weeks = <<>> THEN [hours |-> 0, earnings |-> 0]
    ELSE [hours |-> Head(weeks).hours + SumWeeks(Tail(weeks)).hours,
          earnings |-> Head(weeks).earnings + SumWeeks(Tail(weeks)).earnings]

month_weeks_command(u) ==
    /\ fsm[u] = "none"
    /\ data' = get_user_data(data, u)
    /\ reply' = LET weeks_data == SelectSeq(MonthWeeks(data'[u].work_sessions,
                                                       MonthFirst(Today), 1), WithHours)
                IN [to |-> u,
                    text |-> IF weeks_data # <<>> THEN "monthweeks" ELSE "monthweeks_none",
                    weeks |-> weeks_data,
                    total_hours |-> SumWeeks(weeks_data).hours,
                    total_earnings |-> SumWeeks(weeks_data).earnings]
    /\ UNCHANGED <<disk, fsm, call, remote, now, prevResp>>

(***************************************************************************)
(* /year: the months of the current year that have work.                   *)
(***************************************************************************)
\* The loop over work_sessions.items(): the buckets of the current year are
\* added to the entry of their month.  The sums do not depend on the order
\* of the items; the dates D are taken in ascending order.
RECURSIVE MonthsData(_, _, _)
MonthsData(ws, D, months_data) ==
    IF D = {} THEN months_data
    ELSE LET date == CHOOSE x \in D : \A y \in D : x <= y
             rest == D \ {date}
         IN IF YearOf(date) = YearOf(Today)
            THEN LET month_key == MonthOf(date)
                     old == IF month_key \in DOMAIN months_data
                            THEN months_data[month_key]
                            ELSE [hours |-> 0, earnings |-> 0, date_obj |-> date]
                     new == [old EXCEPT !.hours = @ + ws[date].total_hours,
                                        !.earnings = @ + ws[date].total_earnings]
                 IN MonthsData(ws, rest, (month_key :> new) @@ months_data)
            ELSE MonthsData(ws, rest, months_data)

\* sorted(months_data.items(), key=date_obj): the months, earliest first.
RECURSIVE SortedMonths(_, _)
SortedMonths(months_data, keys) ==
    IF keys = {} THEN <<>>
    ELSE LET k == CHOOSE x \in keys :
                    \A y \in keys : months_data[x].date_obj <= months_data[y].date_obj
         IN <<[month |-> k, hours |-> months_data[k].hours,
               earnings |-> months_data[k].earnings]>>
            \o SortedMonths(months_data, keys \ {k})

\* Faulty variant: the average is computed before months_data is looked at.
year_command_Unguarded(u) ==
    /\ fsm[u] = "none"
    /\ data' = get_user_data(data, u)
    /\ reply' = LET ws == data'[u].work_sessions
                    months_data == MonthsData(ws, DOMAIN ws, <<>>)
                    months == SortedMonths(months_data, DOMAIN months_data)
                    totals == SumWeeks(months)
                IN [to |-> u, text |-> IF months # <<>> THEN "year" ELSE "year_none",
                    months |-> months,
                    months_worked |-> Len(months), total_hours |-> totals.hours,
                    total_earnings |-> totals.earnings,
                    average |-> Quotient(totals.earnings, Len(months))]
    /\ UNCHANGED <<disk, fsm, call, remote, now, prevResp>>

year_command(u) ==
    /\ fsm[u] = "none"
    /\ data' = get_user_data(data, u)
    /\ reply' = LET ws == data'[u].work_sessions
                    months_data == MonthsData(ws, DOMAIN ws, <<>>)
                    months == SortedMonths(months_data, DOMAIN months_data)
                    totals == SumWeeks(months)
                IN IF DOMAIN months_data # {}
                   THEN [to |-> u, text |-> "year", months |-> months,
                         months_worked |-> Cardinality(DOMAIN months_data),
                         total_hours |-> totals.hours, total_earnings |-> totals.earnings,
                         average |-> Quotient(totals.earnings,
                                              Cardinality(DOMAIN months_data))]
                   ELSE [to |-> u, text |-> "year_none"]
    /\ UNCHANGED <<disk, fsm, call, remote, now, prevResp>>

(***************************************************************************)
(* /tasksummary: get_tasks_summary and group_sessions_by_task.             *)
(***************************************************************************)
\* session["date"] = date_str: the assignment is made on the stored session.
WithDate(session, date) == ("date" :> date) @@ session

DateSessions(bucket, date) ==
    [bucket EXCEPT !.sessions = [k \in DOMAIN @ |-> WithDate(@[k], date)]]

\* The buckets after the loop of get_tasks_summary over the dates first..last.
StampedSessions(ws, first, last) ==
    [d \in DOMAIN ws |-> IF first <= d /\ d <= last THEN DateSessions(ws[d], d) ELSE ws[d]]

\* all_sessions: the sessions of the dates first..last, in the order of the dates.
RECURSIVE all_sessions(_, _, _)
all_sessions(ws, date, last) ==
    IF date > last THEN <<>>
    ELSE (IF date \in DOMAIN ws THEN ws[date].sessions ELSE <<>>)
         \o all_sessions(ws, date + 1, last)

SessionTask(session) ==
    IF session.source = "clickup"
    THEN (IF "task_name" \in DOMAIN session THEN session.task_name ELSE UnknownTaskLabel)
    ELSE ManualLabel

\* first_session and last_session are None (written <<>>) or a timestamp t
\* (written <<t>>).
NewTask(session) ==
    [task_name |-> SessionTask(session), total_hours |-> 0, total_earnings |-> 0,
     sessions_count |-> 0, first_session |-> <<>>, last_session |-> <<>>,
     sessions |-> <<>>, source_type |-> session.source]

\* Faulty variant: the first session of a task is the one that is met first.
Earlier_FirstMet(a, b) == IF a = <<>> THEN <<b>> ELSE a

Earlier(a, b) == IF a = <<>> THEN <<b>> ELSE IF b < a[1] THEN <<b>> ELSE a

Later(a, b) == IF a = <<>> THEN <<b>> ELSE IF b > a[1] THEN <<b>> ELSE a

AddToTask(task_data, session) ==
    [task_data EXCEPT
        !.total_hours = @ + session.hours * MsPerHour + session.minutes * (MsPerHour \div 60),
        !.total_earnings = @ + session.earnings,
        !.sessions_count = @ + 1,
        !.sessions = Append(@, session),
        !.first_session = Earlier(@, session.timestamp),
        !.last_session = Later(@, session.timestamp)]

RECURSIVE group_sessions_by_task(_, _)
group_sessions_by_task(sessions, tasks) ==
    IF sessions = <<>> THEN tasks
    ELSE LET session == Head(sessions)
             name == SessionTask(session)
             known == IF name \in DOMAIN tasks THEN tasks ELSE tasks @@ (name :> NewTask(session))
         IN group_sessions_by_task(Tail(sessions),
                [known EXCEPT ![name] = AddToTask(@, session)])

RECURSIVE SumTasks(_, _)
SumTasks(tasks, names) ==
    IF names = {} THEN [total_hours |-> 0, total_earnings |-> 0, total_sessions |-> 0]
    ELSE LET n == CHOOSE x \in names : TRUE
             rest == SumTasks(tasks, names \ {n})
         IN [total_hours |-> tasks[n].total_hours + rest.total_hours,
             total_earnings |-> tasks[n].total_earnings + rest.total_earnings,
             total_sessions |-> tasks[n].sessions_count + rest.total_sessions]

\* The summary returned for the dates first..last of a ledger whose sessions
\* have been stamped.
get_tasks_summary(ws, first, last) ==
    LET tasks == group_sessions_by_task(all_sessions(ws, first, last), <<>>)
        sums == SumTasks(tasks, DOMAIN tasks)
    IN [tasks |-> tasks, total_hours |-> sums.total_hours,
        total_earnings |-> sums.total_earnings, total_tasks |-> Cardinality(DOMAIN tasks),
        total_sessions |-> sums.total_sessions]

\* What follows /tasksummary: nothing (a week), a named period, a number of
\* days, or something else.
Periods ==
    {[kind |-> k, days |-> 0] : k \in {"week", "today", "yesterday", "month", "other"}}
    \cup {[kind |-> "days", days |-> n] : n \in {0, 1}}

MaxSummaryDays == 365

PeriodFirst(period) ==
    CASE period.kind = "today" -> Today
      [] period.kind = "yesterday" -> DaysAgo(1)
      [] period.kind = "week" -> DaysAgo(Weekday(Today))
      [] period.kind = "month" -> MonthFirst(Today)
      [] OTHER -> DaysAgo(period.days - 1)

PeriodLast(period) == IF period.kind = "yesterday" THEN DaysAgo(1) ELSE Today

task_summary_command(u, period) ==
    /\ fsm[u] = "none"
    /\ LET d == get_user_data(data, u)
           first == PeriodFirst(period)
           last == PeriodLast(period)
           stamped == StampedSessions(d[u].work_sessions, first, last)
       IN IF d[u].rate <= 0
          THEN data' = d /\ reply' = Answer(u, "need_rate")
          ELSE IF period.kind = "days" /\ (period.days <= 0 \/ period.days > MaxSummaryDays)
          THEN data' = d /\ reply' = Answer(u, "summary_bad_days")
          ELSE IF period.kind = "other"
          THEN data' = d /\ reply' = Answer(u, "summary_bad_period")
          ELSE /\ data' = [d EXCEPT ![u].work_sessions = stamped]
               /\ reply' = [to |-> u, text |-> "tasksummary",
                            summary |-> get_tasks_summary(stamped, first, last)]
    /\ UNCHANGED <<disk, fsm, call, remote, now, prevResp>>

(***************************************************************************)
(* /syncclickup and /synclast, and sync_clickup_entries.  The handler and  *)
(* the call it makes run up to each await as one step:                     *)
(*   cmd      the handler passed its checks and awaits its first answer    *)
(*   team     get_team_id is inside retry_with_backoff                     *)
(*   entries  get_time_entries is inside retry_with_backoff                *)
(*   fetched  get_time_entries has its result and awaits the body          *)
(*   returned sync_clickup_entries returned; the handler awaits its answer *)
(***************************************************************************)
sync_command(c, u, days) ==
    /\ fsm[u] = "none"
    /\ call[c].pc = "idle"
    /\ data' = get_user_data(data, u)
    /\ call' = IF get_user_clickup_client(data, u) = NoClient \/ data'[u].rate <= 0
               THEN call
               ELSE [call EXCEPT ![c] = [IdleCall EXCEPT !.pc = "cmd", !.user = u, !.days = days]]
    /\ reply' = Answer(u, IF get_user_clickup_client(data, u) = NoClient THEN "not_configured"
                          ELSE IF data'[u].rate <= 0 THEN "need_rate"
                          ELSE "syncing")
    /\ UNCHANGED <<disk, fsm, remote, now, prevResp>>

StartOfToday == now - (now % MsPerDay)

\* Faulty variant: a sync starts by forgetting which entries were synchronised.
sync_clickup_entries_begin_Forget(c) ==
    /\ call[c].pc = "cmd"
    /\ LET u == call[c].user
           clickup_client == get_user_clickup_client(data, u)
       IN /\ data' = [get_user_data(data, u) EXCEPT ![u].clickup_synced_entries = {}]
          /\ call' = [call EXCEPT ![c] =
                IF clickup_client = NoClient
                THEN [@ EXCEPT !.pc = "returned", !.before = data,
                               !.result = [success |-> FALSE, error |-> MsgNotConfigured]]
                ELSE [@ EXCEPT !.pc = "team", !.client = clickup_client,
                               !.start = now - call[c].days * MsPerDay, !.end = now,
                               !.before = data]]
    /\ UNCHANGED <<disk, fsm, remote, now, prevResp, reply>>

sync_clickup_entries_begin(c) ==
    /\ call[c].pc = "cmd"
    /\ LET u == call[c].user
           clickup_client == get_user_clickup_client(data, u)
           start_date == IF call[c].days = 0 THEN StartOfToday
                         ELSE now - call[c].days * MsPerDay
       IN /\ data' = get_user_data(data, u)
          /\ call' = [call EXCEPT ![c] =
                IF clickup_client = NoClient
                THEN [@ EXCEPT !.pc = "returned", !.before = data,
                               !.result = [success |-> FALSE, error |-> MsgNotConfigured]]
                ELSE [@ EXCEPT !.pc = "team", !.client = clickup_client,
                               !.start = start_date, !.end = now, !.before = data]]
    /\ UNCHANGED <<disk, fsm, remote, now, prevResp, reply>>

\* The request function returned or raised for good: retry_with_backoff is left.
Leave(cl, resp) ==
    [cl EXCEPT !.client = NoClient, !.start = 0, !.end = 0, !.nreq = @ + 1, !.last = resp]

\* get_time_entries gives up and returns []: sync_clickup_entries returns at
\* once, with no await in between.
GiveUp(cl, resp, why, error) ==
    [Leave(cl, resp) EXCEPT !.pc = "returned", !.failed = why, !.err = error,
                            !.result = [success |-> TRUE, synced_count |-> 0,
                                        message |-> MsgNotFound]]

GoToSleep(cl, resp, error, wait) ==
    [cl EXCEPT !.nreq = @ + 1, !.last = resp, !.caught = error.exc,
               !.slept = Append(@, wait)]

get_team_id(c, resp, teams) ==
    /\ call[c].pc = "team"
    /\ LET cl == call[c]
           outcome == fetch_team_id(resp, teams, cl.client.workspace_id)
           step == retry_with_backoff(cl.nreq, outcome)
       IN call' = [call EXCEPT ![c] =
             IF step.do = "return"
             THEN IF outcome.value = None
                  THEN GiveUp(cl, resp, "no_team", NoExc)
                  ELSE [cl EXCEPT !.pc = "entries", !.client.team_id = outcome.value,
                                  !.nreq = 0, !.last = NoResponse, !.caught = "-",
                                  !.slept = <<>>]
             ELSE IF step.do = "sleep" THEN GoToSleep(cl, resp, outcome.error, step.wait)
             ELSE GiveUp(cl, resp, "team", outcome.error)]
    /\ UNCHANGED <<data, disk, fsm, remote, now, prevResp, reply>>

get_time_entries(c, resp) ==
    /\ call[c].pc = "entries"
    /\ LET cl == call[c]
           outcome == fetch_time_entries(resp, EntriesInWindow(1, cl.start, cl.end))
           step == retry_with_backoff(cl.nreq, outcome)
       IN call' = [call EXCEPT ![c] =
             IF step.do = "return"
             THEN [Leave(cl, resp) EXCEPT !.pc = "fetched", !.entries = outcome.value,
                                          !.known = data[cl.user].clickup_synced_entries]
             ELSE IF step.do = "sleep" THEN GoToSleep(cl, resp, outcome.error, step.wait)
             ELSE GiveUp(cl, resp, "entries", outcome.error)]
    /\ UNCHANGED <<data, disk, fsm, remote, now, prevResp, reply>>

\* Faulty variant: the ids are looked up among those that were synchronised
\* when the entries were fetched, not when the loop runs.
sync_clickup_entries_CheckBeforeFetch(c) ==
    /\ call[c].pc = "fetched"
    /\ LET u == call[c].user
           clickup_entries == call[c].entries
           stale == [data[u] EXCEPT !.clickup_synced_entries = call[c].known]
           done == SyncLoop(clickup_entries, stale, NoTotals)
       IN /\ IF clickup_entries = <<>>
             THEN /\ call' = [call EXCEPT ![c] =
                        [@ EXCEPT !.pc = "returned", !.before = data,
                                  !.prev = prevResp[u],
                                  !.result = [success |-> TRUE, synced_count |-> 0,
                                              message |-> MsgNotFound]]]
                  /\ UNCHANGED <<data, disk>>
             ELSE /\ data' = [data EXCEPT ![u] =
                                [done.user_data EXCEPT !.clickup_synced_entries =
                                    @ \cup data[u].clickup_synced_entries]]
                  /\ disk' = Persist(data')
                  /\ call' = [call EXCEPT ![c] =
                        [@ EXCEPT !.pc = "returned", !.before = data,
                                  !.prev = prevResp[u],
                                  !.result = [success |-> TRUE,
                                              synced_count |-> done.totals.synced_count,
                                              total_hours |-> done.totals.total_hours,
                                              total_earnings |-> done.totals.total_earnings]]]
          /\ prevResp' = [prevResp EXCEPT ![u] = [valid |-> TRUE, entries |-> clickup_entries]]
    /\ UNCHANGED <<fsm, remote, now, reply>>

\* Faulty variant: the ids are looked up among the synchronised entries of
\* every user.
sync_clickup_entries_SharedIds(c) ==
    /\ call[c].pc = "fetched"
    /\ LET u == call[c].user
           clickup_entries == call[c].entries
           everyone == UNION {data[v].clickup_synced_entries : v \in DOMAIN data}
           shared == [data[u] EXCEPT !.clickup_synced_entries = everyone]
           done == SyncLoop(clickup_entries, shared, NoTotals)
       IN /\ IF clickup_entries = <<>>
             THEN /\ call' = [call EXCEPT ![c] =
                        [@ EXCEPT !.pc = "returned", !.before = data,
                                  !.prev = prevResp[u],
                                  !.result = [success |-> TRUE, synced_count |-> 0,
                                              message |-> MsgNotFound]]]
                  /\ UNCHANGED <<data, disk>>
             ELSE /\ data' = [data EXCEPT ![u] =
                                [done.user_data EXCEPT !.clickup_synced_entries =
                                    @ \ (everyone \ data[u].clickup_synced_entries)]]
                  /\ disk' = Persist(data')
                  /\ call' = [call EXCEPT ![c] =
                        [@ EXCEPT !.pc = "returned", !.before = data,
                                  !.prev = prevResp[u],
                                  !.result = [success |-> TRUE,
                                              synced_count |-> done.totals.synced_count,
                                              total_hours |-> done.totals.total_hours,
                                              total_earnings |-> done.totals.total_earnings]]]
          /\ prevResp' = [prevResp EXCEPT ![u] = [valid |-> TRUE, entries |-> clickup_entries]]
    /\ UNCHANGED <<fsm, remote, now, reply>>

\* int(entry.get('duration', 0)): a duration that is not a number raises.
DurationOf(entry) ==
    IF "duration_is_text" \in DOMAIN entry THEN Raise("ValueError", "int()")
    ELSE Return(entry.duration)

\* The index of the first entry at which the loop raises, 0 if there is none.
FirstFailing(entries) ==
    IF \E k \in DOMAIN entries : DurationOf(entries[k]).kind = "raise"
    THEN CHOOSE k \in DOMAIN entries :
            /\ DurationOf(entries[k]).kind = "raise"
            /\ \A j \in 1..(k - 1) : DurationOf(entries[j]).kind = "return"
    ELSE 0

\* open(DATA_FILE, 'w') raises when the file may not be written.
CanWrite(file) == file.state # "readonly"

\* The loop works on the user's dict in SalaryBot.data: what it has done
\* before an exception stays done.  The exception of the loop, or of
\* save_data after the loop, is caught and reported.
sync_clickup_entries(c) ==
    /\ call[c].pc = "fetched"
    /\ LET u == call[c].user
           clickup_entries == call[c].entries
           k == FirstFailing(clickup_entries)
           reached == IF k = 0 THEN clickup_entries ELSE SubSeq(clickup_entries, 1, k - 1)
           done == SyncLoop(reached, data[u], NoTotals)
       IN /\ IF clickup_entries = <<>>
             THEN /\ call' = [call EXCEPT ![c] =
                        [@ EXCEPT !.pc = "returned", !.before = data,
                                  !.prev = prevResp[u],
                                  !.result = [success |-> TRUE, synced_count |-> 0,
                                              message |-> MsgNotFound]]]
                  /\ UNCHANGED <<data, disk>>
             ELSE /\ data' = [data EXCEPT ![u] = done.user_data]
                  /\ disk' = IF k = 0 /\ CanWrite(disk) THEN Persist(data') ELSE disk
                  /\ call' = [call EXCEPT ![c] =
                        [@ EXCEPT !.pc = "returned", !.before = data,
                                  !.prev = prevResp[u],
                                  !.result =
                                      IF k # 0
                                      THEN [success |-> FALSE, error |-> "ValueError"]
                                      ELSE IF ~CanWrite(disk)
                                      THEN [success |-> FALSE, error |-> "PermissionError"]
                                      ELSE [success |-> TRUE,
                                            synced_count |-> done.totals.synced_count,
                                            total_hours |-> done.totals.total_hours,
                                            total_earnings |-> done.totals.total_earnings]]]
          /\ prevResp' = [prevResp EXCEPT ![u] = [valid |-> TRUE, entries |-> clickup_entries]]
    /\ UNCHANGED <<fsm, remote, now, reply>>

sync_answer(c) ==
    /\ call[c].pc = "returned"
    /\ call' = [call EXCEPT ![c] = IdleCall]
    /\ reply' = Answer(call[c].user,
                       IF ~call[c].result.success THEN "sync_error"
                       ELSE IF call[c].result.synced_count > 0 THEN "sync_done"
                       ELSE "sync_nothing")
    /\ UNCHANGED <<data, disk, fsm, remote, now, prevResp>>

(***************************************************************************)
(* The environment: the remote provider's timers.                          *)
(***************************************************************************)
RemoteStopTimer(i) ==
    /\ remote[i] = "running"
    /\ remote' = [remote EXCEPT ![i] = "stopped"]
    /\ UNCHANGED <<data, disk, fsm, call, now, prevResp, reply>>

\* A timer is stopped as soon as it was started: the entry has duration 0.
RemoteStopAtOnce(i) ==
    /\ remote[i] = "running"
    /\ remote' = [remote EXCEPT ![i] = "stopped_at_once"]
    /\ UNCHANGED <<data, disk, fsm, call, now, prevResp, reply>>

\* The main specification runs the commands of one user, one operation at a
\* time: no command is sent while a sync is in flight.
MainUsers == {"u1"}
MainCalls == {"a"}

Quiet == \A c \in Calls : call[c].pc = "idle"

Next ==
    \/ \E u \in MainUsers : Quiet /\ start_command(u)
    \/ \E u \in MainUsers : Quiet /\ set_rate_command(u)
    \/ \E u \in MainUsers, text \in RateTexts : Quiet /\ process_rate(u, text)
    \/ \E u \in MainUsers : Quiet /\ add_time_command(u)
    \/ \E u \in MainUsers, text \in TimeTexts :
          Quiet /\ ManualCount(u) < MaxManual /\ process_time(u, text)
    \/ \E u \in MainUsers : Quiet /\ clickup_token_command(u)
    \/ \E u \in MainUsers, token \in TokenTexts : Quiet /\ process_clickup_token(u, token)
    \/ \E u \in MainUsers : Quiet /\ clickup_workspace_command(u)
    \/ \E u \in MainUsers, w \in WorkspaceTexts :
          \E v \in ValidationResults(w) : Quiet /\ process_workspace_id(u, w, v)
    \/ \E u \in MainUsers : Quiet /\ clickup_reset_command(u)
    \/ \E c \in MainCalls, u \in MainUsers, days \in {0} \cup SyncDays :
          Quiet /\ sync_command(c, u, days)
    \/ \E c \in MainCalls : sync_clickup_entries_begin(c)
    \/ \E c \in MainCalls, resp \in Responses, teams \in TeamLists : get_team_id(c, resp, teams)
    \/ \E c \in MainCalls, resp \in Responses : get_time_entries(c, resp)
    \/ \E c \in MainCalls : sync_clickup_entries(c)
    \/ \E c \in MainCalls : sync_answer(c)
    \/ \E i \in EntryIds : RemoteStopTimer(i)

Spec == Init /\ [][Next]_vars

\* A sync command awaits the delivery of its first answer before it calls
\* sync_clickup_entries; the dispatcher may run /clickup_reset of the same user
\* in between.
SyncStarting(u) == \E c \in Calls : call[c].pc = "cmd" /\ call[c].user = u

NextOverlap ==
    \/ Next
    \/ \E u \in MainUsers : SyncStarting(u) /\ clickup_reset_command(u)

SpecOverlap == Init /\ [][NextOverlap]_vars

\* The core run with well-formed arguments: the commands are accepted and the
\* provider answers 200 or 401.
OkResponse == [transport |-> "ok", status |-> 200]

HalfAnHour == [nparts |-> 2, ints |-> TRUE, hours |-> 0, minutes |-> 30]

QueryResponses == {OkResponse, [transport |-> "ok", status |-> 401]}

NextCore ==
    \/ \E u \in MainUsers : Quiet /\ set_rate_command(u)
    \/ \E u \in MainUsers : Quiet /\ process_rate(u, [numeric |-> TRUE, value |-> 1])
    \/ \E u \in MainUsers : Quiet /\ add_time_command(u)
    \/ \E u \in MainUsers :
          Quiet /\ ManualCount(u) < MaxManual /\ process_time(u, HalfAnHour)
    \/ \E u \in MainUsers : Quiet /\ clickup_token_command(u)
    \/ \E u \in MainUsers : Quiet /\ process_clickup_token(u, GoodToken)
    \/ \E u \in MainUsers : Quiet /\ clickup_workspace_command(u)
    \/ \E u \in MainUsers, w \in {RemoteTeams[1]} :
          \E v \in {r \in ValidationResults(w) : r.success} :
              Quiet /\ process_workspace_id(u, w, v)
    \/ \E c \in MainCalls, u \in MainUsers, days \in SyncDays :
          Quiet /\ sync_command(c, u, days)
    \/ \E c \in MainCalls : sync_clickup_entries_begin(c)
    \/ \E c \in MainCalls : get_team_id(c, OkResponse, RemoteTeams)
    \/ \E c \in MainCalls, resp \in QueryResponses : get_time_entries(c, resp)
    \/ \E c \in MainCalls : sync_clickup_entries(c)
    \/ \E c \in MainCalls : sync_answer(c)
    \/ \E i \in EntryIds : RemoteStopTimer(i)

\* The ledger under the queries: the user asks for totals and summaries in
\* between the commands of the core.
NextQueries ==
    \/ NextCore
    \/ \E u \in MainUsers : Quiet /\ today_command(u)
    \/ \E u \in MainUsers : Quiet /\ yesterday_command(u)
    \/ \E u \in MainUsers : Quiet /\ week_command(u)
    \/ \E u \in MainUsers : Quiet /\ week_details_command(u)
    \/ \E u \in MainUsers : Quiet /\ month_command(u)
    \/ \E u \in MainUsers : Quiet /\ month_weeks_command(u)
    \/ \E u \in MainUsers : Quiet /\ year_command(u)
    \/ \E u \in MainUsers, period \in Periods : Quiet /\ task_summary_command(u, period)

SpecQueries == Init /\ [][NextQueries]_vars

(***************************************************************************)
(* Restarts.  The process may be stopped and started again: SalaryBot is   *)
(* constructed anew from the file, and the FSM storage, which is in        *)
(* memory, starts empty.  In between the file may be damaged.              *)
(***************************************************************************)
Damages == {"unreadable", "garbage", "not_object"}

DamageFile(kind) ==
    /\ Quiet
    /\ disk.exists
    /\ disk.state = "ok"
    /\ disk' = [disk EXCEPT !.state = kind]
    /\ UNCHANGED <<data, fsm, call, remote, now, prevResp, reply>>

Restart ==
    /\ data' = load_data(disk)
    /\ fsm' = [u \in Users |-> "none"]
    /\ call' = [c \in Calls |-> IdleCall]
    /\ prevResp' = [u \in Users |-> NoPrev]
    /\ reply' = NoReply
    /\ UNCHANGED <<disk, remote, now>>

NextRestart ==
    \/ NextCore
    \/ \E kind \in Damages : DamageFile(kind)
    \/ Restart

SpecRestart == Init /\ [][NextRestart]_vars

(***************************************************************************)
(* The calendar.  Midnight passes; the user sets a rate, enters at most    *)
(* one manual session a day and asks for the week.                         *)
(***************************************************************************)
Tick ==
    /\ Quiet
    /\ Today < MaxDay
    /\ now' = now + MsPerDay
    /\ UNCHANGED <<data, disk, fsm, call, remote, prevResp, reply>>

NextWeek ==
    \/ \E u \in MainUsers : set_rate_command(u)
    \/ \E u \in MainUsers : process_rate(u, [numeric |-> TRUE, value |-> 1])
    \/ \E u \in MainUsers : add_time_command(u)
    \/ \E u \in MainUsers :
          Today \notin DOMAIN LedgerOf(data, u).work_sessions /\ process_time(u, HalfAnHour)
    \/ \E u \in MainUsers : week_command(u)
    \/ Tick

SpecWeek == Init /\ [][NextWeek]_vars

(***************************************************************************)
(* The reports on a ledger that has been kept for a while.  The bot has    *)
(* run since the month before: the user has a rate of 2, has entered one   *)
(* manual session on each of a few days up to today, and now asks for the  *)
(* reports.                                                                *)
(***************************************************************************)
ReportDays == {-23, -20, 0, 1, 2, 8, 9}

ReportDates == {-250, -100, -30, -29, -28, -27, -26, -20, 0, 1, 2, 8, 9}

\* The session entered on a date: an hour on even dates, half an hour on odd.
PastSession(date, rate) ==
    LET minutes == IF date % 2 = 0 THEN 0 ELSE 30
        hours == IF date % 2 = 0 THEN 1 ELSE 0
    IN [hours |-> hours, minutes |-> minutes,
        earnings |-> (hours * MsPerHour + minutes * (MsPerHour \div 60)) * rate,
        timestamp |-> (date - 1) * 86400 + 18 * 3600, source |-> "manual"]

RECURSIVE PastSessions(_, _)
PastSessions(D, rate) ==
    IF D = {} THEN <<>>
    ELSE LET d == CHOOSE x \in D : \A y \in D : x <= y
             session == PastSession(d, rate)
         IN AppendSession(PastSessions(D \ {d}, rate), d, session,
                          session.hours * MsPerHour + session.minutes * (MsPerHour \div 60),
                          session.earnings)

InitReports ==
    /\ \E day \in ReportDays : now = (day - 1) * MsPerDay + 18 * MsPerHour
    /\ \E D \in SUBSET {d \in ReportDates : d <= Today} :
          /\ Cardinality(D) <= MaxBuckets
          /\ data = [u \in MainUsers |->
                        [DefaultUser EXCEPT !.rate = 2, !.work_sessions = PastSessions(D, 2)]]
    /\ disk = Persist(data)
    /\ fsm = [u \in Users |-> "none"]
    /\ call = [c \in Calls |-> IdleCall]
    /\ remote = [i \in EntryIds |-> "running"]
    /\ prevResp = [u \in Users |-> NoPrev]
    /\ reply = NoReply

NextReports ==
    \/ \E u \in MainUsers : week_command(u)
    \/ \E u \in MainUsers : month_command(u)
    \/ \E u \in MainUsers : month_weeks_command(u)
    \/ \E u \in MainUsers : year_command(u)

SpecReports == InitReports /\ [][NextReports]_vars

(***************************************************************************)
(* The loop of sync_clickup_entries on the answers a provider may give.    *)
(* A configured user with a rate of 2, who may have entered work yesterday *)
(* and today, has asked for the last 7 days; the request has been answered *)
(* with a list of entries, in any order: two of today (the later one may   *)
(* come first), one of yesterday, one older than the window and a running  *)
(* timer.  When the sync has answered, the user asks for task summaries.   *)
(***************************************************************************)
SampleEntries ==
    {[id |-> 1, duration |-> MsPerHour, start |-> MsPerDay + 10 * MsPerHour, task |-> "A"],
     [id |-> 2, duration |-> 1800000, start |-> MsPerDay + 9 * MsPerHour, task |-> "A"],
     [id |-> 3, duration |-> MsPerHour, start |-> 9 * MsPerHour, task |-> "B"],
     [id |-> 4, duration |-> MsPerHour, start |-> 9 * MsPerHour - 11 * MsPerDay, task |-> None],
     [id |-> 5, duration |-> RunningDuration, start |-> MsPerDay + 17 * MsPerHour,
      task |-> "B"]}

SampleResponses ==
    {r \in UNION {[1..n -> SampleEntries] : n \in 1..MaxResponse} :
        \A j, k \in DOMAIN r : j # k => r[j] # r[k]}

ConnectedSettings ==
    [api_token |-> GoodToken, workspace_id |-> RemoteTeams[1], team_id |-> RemoteTeams[1],
     user_id |-> "7", username |-> "worker"]

InitLoop ==
    /\ now = MsPerDay + 18 * MsPerHour
    /\ \E D \in SUBSET {1, 2} :
          data = [u \in MainUsers |->
                    [DefaultUser EXCEPT !.rate = 2, !.work_sessions = PastSessions(D, 2),
                                        !.clickup_settings = ConnectedSettings]]
    /\ disk = Persist(data)
    /\ fsm = [u \in Users |-> "none"]
    /\ \E r \in SampleResponses :
          call = [c \in Calls |->
                    IF c \in MainCalls
                    THEN [IdleCall EXCEPT !.pc = "fetched", !.user = "u1",
                                          !.days = DefaultSyncDays, !.nreq = 1,
                                          !.last = OkResponse, !.entries = r,
                                          !.before = data]
                    ELSE IdleCall]
    /\ remote = [i \in EntryIds |-> "running"]
    /\ prevResp = [u \in Users |-> NoPrev]
    /\ reply = Answer("u1", "syncing")

LoopPeriods == Periods \cup {[kind |-> "days", days |-> 13]}

NextLoop ==
    \/ \E c \in MainCalls : sync_clickup_entries(c)
    \/ \E c \in MainCalls : sync_answer(c)
    \/ \E u \in MainUsers, period \in LoopPeriods : Quiet /\ task_summary_command(u, period)

SpecLoop == InitLoop /\ [][NextLoop]_vars

(***************************************************************************)
(* One ClickUpClient and the get_team_id calls made on it.  The methods of *)
(* a client (get_time_entries, get_spaces, start_timer, ...) each begin    *)
(* with get_team_id, and a handler such as /clickupstatus calls several of *)
(* them on the client it has built, one after the other.                   *)
(***************************************************************************)
ClientTeamLists ==
    TeamLists \cup {<<"">>, <<"90000002", "90000001">>, <<"90000002">>}

\* "if self.team_id": None and the empty string are false.
Truthy(v) == v # None /\ v # ""

new_client(c, u) ==
    /\ call[c].pc = "idle"
    /\ get_user_clickup_client(data, u) # NoClient
    /\ data' = get_user_data(data, u)
    /\ call' = [call EXCEPT ![c] =
                  [IdleCall EXCEPT !.pc = "client", !.user = u,
                                   !.client = get_user_clickup_client(data, u)]]
    /\ UNCHANGED <<disk, fsm, remote, now, prevResp, reply>>

\* Faulty variant: the cached id is not looked at.
client_get_team_id_NoCache(c) ==
    /\ call[c].pc = "client"
    /\ Len(call[c].calls) < MaxClientCalls
    /\ call' = [call EXCEPT ![c].pc = "team_call"]
    /\ UNCHANGED <<data, disk, fsm, remote, now, prevResp, reply>>

\* get_team_id is called: the cached id is returned, or the request loop is
\* entered.
client_get_team_id(c) ==
    /\ call[c].pc = "client"
    /\ Len(call[c].calls) < MaxClientCalls
    /\ call' = [call EXCEPT ![c] =
                  IF Truthy(@.client.team_id)
                  THEN [@ EXCEPT !.calls = Append(@, [value |-> call[c].client.team_id,
                                                      requests |-> 0])]
                  ELSE [@ EXCEPT !.pc = "team_call"]]
    /\ UNCHANGED <<data, disk, fsm, remote, now, prevResp, reply>>

\* The call is left with a value: nreq requests were sent before this one.
ClientReturns(cl, resp, value) ==
    [cl EXCEPT !.pc = "client", !.nreq = 0, !.last = resp, !.caught = "-", !.slept = <<>>,
               !.calls = Append(@, [value |-> value, requests |-> cl.nreq + 1])]

\* Faulty variant: a failure is remembered as the id of the workspace.
client_fetch_team_id_CachesFailure(c, resp, teams) ==
    /\ call[c].pc = "team_call"
    /\ LET cl == call[c]
           outcome == fetch_team_id(resp, teams, cl.client.workspace_id)
           step == retry_with_backoff(cl.nreq, outcome)
       IN call' = [call EXCEPT ![c] =
             IF step.do = "return"
             THEN [ClientReturns(cl, resp, outcome.value) EXCEPT
                      !.client.team_id = IF outcome.value = None THEN cl.client.workspace_id
                                         ELSE outcome.value]
             ELSE IF step.do = "sleep" THEN GoToSleep(cl, resp, outcome.error, step.wait)
             ELSE [ClientReturns(cl, resp, None) EXCEPT
                      !.client.team_id = cl.client.workspace_id]]
    /\ UNCHANGED <<data, disk, fsm, remote, now, prevResp, reply>>

\* One request of _fetch_team_id inside retry_with_backoff: the id that is
\* found is stored on the client and returned; with no team None is
\* returned, and an exception that leaves the loop is caught and None is
\* returned.
client_fetch_team_id(c, resp, teams) ==
    /\ call[c].pc = "team_call"
    /\ LET cl == call[c]
           outcome == fetch_team_id(resp, teams, cl.client.workspace_id)
           step == retry_with_backoff(cl.nreq, outcome)
       IN call' = [call EXCEPT ![c] =
             IF step.do = "return"
             THEN [ClientReturns(cl, resp, outcome.value) EXCEPT
                      !.client.team_id = IF outcome.value = None THEN @ ELSE outcome.value]
             ELSE IF step.do = "sleep" THEN GoToSleep(cl, resp, outcome.error, step.wait)
             ELSE ClientReturns(cl, resp, None)]
    /\ UNCHANGED <<data, disk, fsm, remote, now, prevResp, reply>>

\* The handler that built the client returns.
drop_client(c) ==
    /\ call[c].pc = "client"
    /\ call' = [call EXCEPT ![c] = IdleCall]
    /\ UNCHANGED <<data, disk, fsm, remote, now, prevResp, reply>>

InitClient ==
    /\ now = MsPerDay + 18 * MsPerHour
    /\ data = [u \in MainUsers |->
                  [DefaultUser EXCEPT !.rate = 2, !.clickup_settings = ConnectedSettings]]
    /\ disk = Persist(data)
    /\ fsm = [u \in Users |-> "none"]
    /\ call = [c \in Calls |-> IdleCall]
    /\ remote = [i \in EntryIds |-> "running"]
    /\ prevResp = [u \in Users |-> NoPrev]
    /\ reply = NoReply

NextClient ==
    \/ \E c \in MainCalls, u \in MainUsers : new_client(c, u)
    \/ \E c \in MainCalls : client_get_team_id(c)
    \/ \E c \in MainCalls, resp \in Responses, teams \in ClientTeamLists :
          client_fetch_team_id(c, resp, teams)
    \/ \E c \in MainCalls : drop_client(c)

SpecClient == InitClient /\ [][NextClient]_vars

(***************************************************************************)
(* The loop of sync_clickup_entries on what is not expected.  As above,    *)
(* but the provider may list an entry whose duration is not a number and   *)
(* an entry of a task that is named like the label of the manual           *)
(* sessions, and the data file may have become read-only since it was last *)
(* written.                                                                *)
(***************************************************************************)
BadEntry ==
    [id |-> 6, duration |-> 0, duration_is_text |-> TRUE,
     start |-> MsPerDay + 11 * MsPerHour, task |-> "A"]

NamesakeEntry ==
    [id |-> 7, duration |-> MsPerHour, start |-> MsPerDay + 12 * MsPerHour,
     task |-> ManualLabel]

UnusualResponses ==
    {r \in UNION {[1..n -> SampleEntries \cup {BadEntry, NamesakeEntry}] :
                     n \in 1..MaxResponse} :
        \A j, k \in DOMAIN r : j # k => r[j] # r[k]}

InitUnusual ==
    /\ now = MsPerDay + 18 * MsPerHour
    /\ \E D \in SUBSET {2} :
          data = [u \in MainUsers |->
                    [DefaultUser EXCEPT !.rate = 2, !.work_sessions = PastSessions(D, 2),
                                        !.clickup_settings = ConnectedSettings]]
    /\ \E state \in {"ok", "readonly"} : disk = [Persist(data) EXCEPT !.state = state]
    /\ fsm = [u \in Users |-> "none"]
    /\ \E r \in UnusualResponses :
          call = [c \in Calls |->
                    IF c \in MainCalls
                    THEN [IdleCall EXCEPT !.pc = "fetched", !.user = "u1",
                                          !.days = DefaultSyncDays, !.nreq = 1,
                                          !.last = OkResponse, !.entries = r,
                                          !.before = data]
                    ELSE IdleCall]
    /\ remote = [i \in EntryIds |-> "running"]
    /\ prevResp = [u \in Users |-> NoPrev]
    /\ reply = Answer("u1", "syncing")

NextUnusual ==
    \/ \E c \in MainCalls : sync_clickup_entries(c)
    \/ \E c \in MainCalls : sync_answer(c)
    \/ \E u \in MainUsers : Quiet /\ task_summary_command(u, [kind |-> "today", days |-> 0])

SpecUnusual == InitUnusual /\ [][NextUnusual]_vars

(***************************************************************************)
(* The dialogue.  The dispatcher hands a message to the first handler, in  *)
(* the order of registration, whose filter matches: a command filter       *)
(* matches the text of the command, a state filter every message of a chat *)
(* that is in the state.  A message is a command or another text; what     *)
(* float() and split()/int() make of it is part of the message.            *)
(***************************************************************************)
Unparsed == [numeric |-> FALSE, value |-> 0]

OneWord == [nparts |-> 1, ints |-> TRUE, hours |-> 0, minutes |-> 0]

DialogCommands == {"start", "help", "setrate", "addtime", "today"}

Messages ==
    {[kind |-> "command", name |-> n, rate |-> Unparsed, time |-> OneWord] :
        n \in DialogCommands}
    \cup {[kind |-> "text", name |-> "-", rate |-> [numeric |-> TRUE, value |-> v],
           time |-> OneWord] : v \in {0, 1, 2}}
    \cup {[kind |-> "text", name |-> "-", rate |-> Unparsed,
           time |-> [nparts |-> 2, ints |-> TRUE, hours |-> 0, minutes |-> m]] :
              m \in {0, 30, 60}}
    \cup {[kind |-> "text", name |-> "-", rate |-> Unparsed,
           time |-> [nparts |-> 2, ints |-> FALSE, hours |-> 0, minutes |-> 0]]}

IsCommand(m, name) == m.kind = "command" /\ m.name = name

\* Faulty variant: every command is looked for before the state handlers.
Dispatch_CommandsFirst(state, m) ==
    IF IsCommand(m, "start") THEN "start_command"
    ELSE IF IsCommand(m, "help") THEN "help_command"
    ELSE IF IsCommand(m, "setrate") THEN "set_rate_command"
    ELSE IF IsCommand(m, "addtime") THEN "add_time_command"
    ELSE IF IsCommand(m, "today") THEN "today_command"
    ELSE IF state = "waiting_for_rate" THEN "process_rate"
    ELSE IF state = "waiting_for_time" THEN "process_time"
    ELSE "unhandled"

\* The handler that gets message m of a chat in the given state.
Dispatch(state, m) ==
    IF IsCommand(m, "start") THEN "start_command"
    ELSE IF IsCommand(m, "help") THEN "help_command"
    ELSE IF IsCommand(m, "setrate") THEN "set_rate_command"
    ELSE IF state = "waiting_for_rate" THEN "process_rate"
    ELSE IF IsCommand(m, "addtime") THEN "add_time_command"
    ELSE IF state = "waiting_for_time" THEN "process_time"
    ELSE IF IsCommand(m, "today") THEN "today_command"
    ELSE "unhandled"

Deliver(u, m) ==
    LET handler == Dispatch(fsm[u], m)
    IN \/ handler = "start_command" /\ start_command(u)
       \/ handler = "help_command" /\ help_command(u)
       \/ handler = "set_rate_command" /\ set_rate_command(u)
       \/ handler = "process_rate" /\ process_rate(u, m.rate)
       \/ handler = "add_time_command" /\ add_time_command(u)
       \/ handler = "process_time" /\ ManualCount(u) < MaxManual /\ process_time(u, m.time)
       \/ handler = "today_command" /\ today_command(u)

NextDialog == \E u \in MainUsers, m \in Messages : Deliver(u, m)

SpecDialog == Init /\ [][NextDialog]_vars

\* The dialogue of a user who may also send the text "nan".
NanText ==
    [kind |-> "text", name |-> "-", rate |-> [numeric |-> TRUE, value |-> NaN],
     time |-> OneWord]

NextFloat == \E u \in MainUsers, m \in Messages \cup {NanText} : Deliver(u, m)

SpecFloat == Init /\ [][NextFloat]_vars

(***************************************************************************)
(* The loop of /monthweeks, pass by pass, in every month of every kind of  *)
(* year.  A year is given by whether it is a leap year and by the weekday  *)
(* of its 1 January; a date is the ordinal of its day in that year, and    *)
(* the ordinals after the last day of the year are the first days of the   *)
(* next January.  Every date of the handler carries the time of day of     *)
(* "today", so the dates compare as their ordinals do.  The user has no    *)
(* ledger yet: the sums of every week are 0, and the loop does not read    *)
(* them.                                                                   *)
(***************************************************************************)
Years == [leap : BOOLEAN, jan1 : 0..6]

MonthLengths(year) ==
    <<31, IF year.leap THEN 29 ELSE 28, 31, 30, 31, 30, 31, 31, 30, 31, 30, 31>>

RECURSIVE FirstOfMonth(_, _)
FirstOfMonth(year, m) ==
    IF m = 1 THEN 1 ELSE FirstOfMonth(year, m - 1) + MonthLengths(year)[m - 1]

YearLength(year) == FirstOfMonth(year, 12) + 30

\* datetime.month
DateMonth(year, date) ==
    IF date > YearLength(year) THEN 1
    ELSE Cardinality({m \in 1..12 : FirstOfMonth(year, m) <= date})

\* datetime.weekday(): 0 is Monday
DateWeekday(year, date) == (year.jan1 + date - 1) % 7

\* The frame of the handler: the kind of year and today are what
\* datetime.now() gave.
Frame(u, year, today) ==
    [pc |-> "entered", user |-> u, year |-> year, today |-> today,
     first_day_of_month |-> 0, last_day_of_month |-> 0,
     current_start |-> 0, week_number |-> 0, weeks_data |-> <<>>, passes |-> <<>>]

\* The handler up to the loop: the ledger of the user, the first and the
\* last day of the month of today.
month_weeks_begin(c) ==
    /\ call[c].pc = "entered"
    /\ data' = get_user_data(data, call[c].user)
    /\ LET f == call[c]
           first == FirstOfMonth(f.year, DateMonth(f.year, f.today))
           last == IF DateMonth(f.year, f.today) = 12
                   THEN first + (31 - 1)
                   ELSE FirstOfMonth(f.year, DateMonth(f.year, f.today) + 1) - 1
       IN call' = [call EXCEPT ![c] =
                     [f EXCEPT !.pc = "loop", !.first_day_of_month = first,
                               !.last_day_of_month = last, !.current_start = first,
                               !.week_number = 1]]
    /\ UNCHANGED <<disk, fsm, remote, now, prevResp, reply>>

\* "while current_start <= today and current_start.month == today.month"
LoopCondition(f) ==
    /\ f.current_start <= f.today
    /\ DateMonth(f.year, f.current_start) = DateMonth(f.year, f.today)

\* The sums of one week: the buckets of the dates from start to week_end.
\* The dates of this ledger are not dates of the year of the frame; the
\* ledger is empty.
WeekSums(ws, start, week_end) ==
    IF DOMAIN ws = {} THEN [total_hours |-> 0, total_earnings |-> 0]
    ELSE SumBuckets(ws, start, week_end)

\* Faulty variant: after the first week the loop goes on at its Sunday.
month_weeks_pass_FromSunday(c) ==
    /\ call[c].pc = "loop"
    /\ LoopCondition(call[c])
    /\ call[c].week_number <= MaxPasses
    /\ LET f == call[c]
           days_until_sunday == (6 - DateWeekday(f.year, f.current_start)) % 7
           week_end == Min(IF f.current_start = f.first_day_of_month
                           THEN f.current_start + days_until_sunday
                           ELSE f.current_start + 6,
                           Min(f.last_day_of_month, f.today))
           week == WeekSums(data[f.user].work_sessions, f.current_start, week_end)
           next_start == IF f.current_start = f.first_day_of_month
                         THEN f.current_start + days_until_sunday
                         ELSE f.current_start + 7
           record == [number |-> f.week_number, start |-> f.current_start,
                      end |-> week_end, hours |-> week.total_hours,
                      earnings |-> week.total_earnings]
       IN call' = [call EXCEPT ![c] =
                     [f EXCEPT !.current_start = next_start,
                               !.week_number = f.week_number + 1,
                               !.weeks_data = IF week.total_hours > 0
                                              THEN Append(@, record) ELSE @,
                               !.passes = Append(@, record)]]
    /\ UNCHANGED <<data, disk, fsm, remote, now, prevResp, reply>>

\* One pass of the loop: the end of the week, its sums, the start of the
\* next week.  passes is history: one record for every pass.
month_weeks_pass(c) ==
    /\ call[c].pc = "loop"
    /\ LoopCondition(call[c])
    /\ call[c].week_number <= MaxPasses
    /\ LET f == call[c]
           days_until_sunday == (6 - DateWeekday(f.year, f.current_start)) % 7
           week_end == Min(IF f.current_start = f.first_day_of_month
                           THEN f.current_start + days_until_sunday
                           ELSE f.current_start + 6,
                           Min(f.last_day_of_month, f.today))
           week == WeekSums(data[f.user].work_sessions, f.current_start, week_end)
           next_start == IF f.current_start = f.first_day_of_month
                         THEN f.current_start + days_until_sunday + 1
                         ELSE f.current_start + 7
           record == [number |-> f.week_number, start |-> f.current_start,
                      end |-> week_end, hours |-> week.total_hours,
                      earnings |-> week.total_earnings]
       IN call' = [call EXCEPT ![c] =
                     [f EXCEPT !.current_start = next_start,
                               !.week_number = f.week_number + 1,
                               !.weeks_data = IF week.total_hours > 0
                                              THEN Append(@, record) ELSE @,
                               !.passes = Append(@, record)]]
    /\ UNCHANGED <<data, disk, fsm, remote, now, prevResp, reply>>

\* The loop is left and the answer is sent.
month_weeks_answer(c) ==
    /\ call[c].pc = "loop"
    /\ ~LoopCondition(call[c])
    /\ call' = [call EXCEPT ![c].pc = "answered"]
    /\ reply' = LET weeks_data == call[c].weeks_data
                IN [to |-> call[c].user,
                    text |-> IF weeks_data # <<>> THEN "monthweeks" ELSE "monthweeks_none",
                    weeks |-> weeks_data,
                    total_hours |-> SumWeeks(weeks_data).hours,
                    total_earnings |-> SumWeeks(weeks_data).earnings]
    /\ UNCHANGED <<data, disk, fsm, remote, now, prevResp>>

InitPartition ==
    /\ disk = NoFile
    /\ data = load_data(NoFile)
    /\ fsm = [u \in Users |-> "none"]
    /\ \E u \in MainUsers, year \in Years :
          \E today \in 1..YearLength(year) :
              call = [c \in Calls |-> IF c \in MainCalls THEN Frame(u, year, today)
                                      ELSE IdleCall]
    /\ remote = [i \in EntryIds |-> "running"]
    /\ now = MsPerDay + 18 * MsPerHour
    /\ prevResp = [u \in Users |-> NoPrev]
    /\ reply = NoReply

NextPartition ==
    \/ \E c \in MainCalls : month_weeks_begin(c)
    \/ \E c \in MainCalls : month_weeks_pass(c)
    \/ \E c \in MainCalls : month_weeks_answer(c)

\* The handler is a coroutine that never waits: once started it runs on.
SpecPartition == InitPartition /\ [][NextPartition]_vars /\ WF_vars(NextPartition)

(***************************************************************************)
(* The core with a provider whose entries may have no duration at all.     *)
(***************************************************************************)
NextAbsorb ==
    \/ NextCore
    \/ \E i \in EntryIds : RemoteStopAtOnce(i)

SpecAbsorb == Init /\ [][NextAbsorb]_vars

(***************************************************************************)
(* Concurrent syncs of one user.  The dispatcher starts a handler for      *)
(* every update, so /syncclickup (today) and /synclast (the last 7 days)   *)
(* of the same user may both be in flight and run in turns at their awaits.*)
(***************************************************************************)
NextConcurrent ==
    \/ \E u \in MainUsers : Quiet /\ set_rate_command(u)
    \/ \E u \in MainUsers : Quiet /\ process_rate(u, [numeric |-> TRUE, value |-> 1])
    \/ \E u \in MainUsers : Quiet /\ clickup_token_command(u)
    \/ \E u \in MainUsers : Quiet /\ process_clickup_token(u, GoodToken)
    \/ \E u \in MainUsers : Quiet /\ clickup_workspace_command(u)
    \/ \E u \in MainUsers, w \in {RemoteTeams[1]} :
          \E v \in {r \in ValidationResults(w) : r.success} :
              Quiet /\ process_workspace_id(u, w, v)
    \/ \E c \in Calls, u \in MainUsers, days \in {0} \cup SyncDays : sync_command(c, u, days)
    \/ \E c \in Calls : sync_clickup_entries_begin(c)
    \/ \E c \in Calls : get_team_id(c, OkResponse, RemoteTeams)
    \/ \E c \in Calls : get_time_entries(c, OkResponse)
    \/ \E c \in Calls : sync_clickup_entries(c)
    \/ \E c \in Calls : sync_answer(c)
    \/ \E i \in EntryIds : RemoteStopTimer(i)

SpecConcurrent == Init /\ [][NextConcurrent]_vars

(***************************************************************************)
(* Two users.  Each sets a rate and credentials and synchronises the last  *)
(* 7 days; the syncs of the two may be in flight together.  Both accounts  *)
(* see the same entries at the provider.                                   *)
(***************************************************************************)
SlotOf(u) == IF u = "u1" THEN "a" ELSE "b"

NextTwoUsers ==
    \/ \E u \in Users : Quiet /\ set_rate_command(u)
    \/ \E u \in Users : Quiet /\ process_rate(u, [numeric |-> TRUE, value |-> 1])
    \/ \E u \in MainUsers : Quiet /\ add_time_command(u)
    \/ \E u \in MainUsers :
          Quiet /\ ManualCount(u) < MaxManual /\ process_time(u, HalfAnHour)
    \/ \E u \in Users : Quiet /\ clickup_token_command(u)
    \/ \E u \in Users : Quiet /\ process_clickup_token(u, GoodToken)
    \/ \E u \in Users : Quiet /\ clickup_workspace_command(u)
    \/ \E u \in Users, w \in {RemoteTeams[1]} :
          \E v \in {r \in ValidationResults(w) : r.success} :
              Quiet /\ process_workspace_id(u, w, v)
    \/ \E u \in Users, days \in SyncDays : sync_command(SlotOf(u), u, days)
    \/ \E c \in Calls : sync_clickup_entries_begin(c)
    \/ \E c \in Calls : get_team_id(c, OkResponse, RemoteTeams)
    \/ \E c \in Calls : get_time_entries(c, OkResponse)
    \/ \E c \in Calls : sync_clickup_entries(c)
    \/ \E c \in Calls : sync_answer(c)
    \/ \E i \in EntryIds : RemoteStopTimer(i)

SpecTwoUsers == Init /\ [][NextTwoUsers]_vars

(***************************************************************************)
(* Vocabulary of the properties.                                           *)
(***************************************************************************)
Dates(u) == DOMAIN data[u].work_sessions

Bucket(u, d) == data[u].work_sessions[d]

\* The places <<date, index>> of the sessions of u that carry the remote id.
Carriers(u, id) ==
    UNION {{<<d, k>> : k \in {j \in DOMAIN Bucket(u, d).sessions :
                                /\ Bucket(u, d).sessions[j].source = "clickup"
                                /\ Bucket(u, d).sessions[j].clickup_id = id}} :
           d \in Dates(u)}

RECURSIVE SumHours(_)
SumHours(sessions) ==
    IF sessions = <<>> THEN 0
    ELSE Head(sessions).hours * MsPerHour + Head(sessions).minutes * (MsPerHour \div 60)
         + SumHours(Tail(sessions))

RECURSIVE SumEarnings(_)
SumEarnings(sessions) ==
    IF sessions = <<>> THEN 0
    ELSE Head(sessions).earnings + SumEarnings(Tail(sessions))

\* The sync in slot c has run its loop over the entries it fetched.
Processed(c) ==
    call[c].pc = "returned" /\ call[c].failed = "-" /\ call[c].result.success

\* The ids of the entries of a response that a ledger would absorb.
Eligible(entries, ud) ==
    {entries[k].id : k \in {j \in DOMAIN entries :
        entries[j].duration >= 0 /\ entries[j].id \notin ud.clickup_synced_entries}}

HasEntry(entries, id, running) ==
    \E k \in DOMAIN entries :
        entries[k].id = id /\ (entries[k].duration < 0) = running

(***************************************************************************)
(* C1. Idempotent sync: a sync returns as synced_count the number of       *)
(* entries of its response that have a non-negative duration and were not  *)
(* absorbed before; a sync that processes the same response as the sync    *)
(* just before it returns synced_count = 0 and leaves every bucket (its    *)
(* totals and its sessions) as the first sync left it.                     *)
(***************************************************************************)
C1_IdempotentSync ==
    \A c \in Calls : Processed(c) =>
        LET u == call[c].user
            old == call[c].before[u]
        IN /\ call[c].result.synced_count = Cardinality(Eligible(call[c].entries, old))
           /\ call[c].prev = [valid |-> TRUE, entries |-> call[c].entries]
                => /\ call[c].result.synced_count = 0
                   /\ data[u].work_sessions = old.work_sessions

\* A second sync of a response that holds a stopped entry has returned.
C1_Witness ==
    \E c \in Calls :
        /\ Processed(c)
        /\ call[c].prev = [valid |-> TRUE, entries |-> call[c].entries]
        /\ \E k \in DOMAIN call[c].entries : call[c].entries[k].duration >= 0
        /\ call[c].result.synced_count = 0

(***************************************************************************)
(* C2. At-most-once absorption: in every reachable state, for every user,  *)
(* a remote id is in clickup_synced_entries if and only if some session of *)
(* the user carries it as clickup_id, and no id is carried by more than    *)
(* one session.                                                            *)
(***************************************************************************)
C2_AtMostOnce ==
    \A u \in DOMAIN data : \A id \in EntryIds :
        /\ (id \in data[u].clickup_synced_entries) <=> (Carriers(u, id) # {})
        /\ Cardinality(Carriers(u, id)) <= 1

\* Two syncs in a row over overlapping windows absorbed an entry each, around
\* a ledger with an absorbed entry: the second one skipped the first one's.
C2_Witness ==
    \E c \in Calls :
        /\ Processed(c)
        /\ call[c].prev.valid
        /\ call[c].result.synced_count = 1
        /\ Cardinality(data[call[c].user].clickup_synced_entries) = 2
        /\ \E k \in DOMAIN call[c].entries :
              call[c].entries[k].id \in call[c].before[call[c].user].clickup_synced_entries

(***************************************************************************)
(* C3. Bucket hours: for every user and date, the bucket's total_hours is  *)
(* the sum over its sessions of hours + minutes / 60.                      *)
(***************************************************************************)
C3_BucketHours ==
    \A u \in DOMAIN data : \A d \in Dates(u) :
        Bucket(u, d).total_hours = SumHours(Bucket(u, d).sessions)

(***************************************************************************)
(* C4. Bucket earnings: for every user and date, the bucket's              *)
(* total_earnings is the sum of the earnings of its sessions.              *)
(***************************************************************************)
C4_BucketEarnings ==
    \A u \in DOMAIN data : \A d \in Dates(u) :
        Bucket(u, d).total_earnings = SumEarnings(Bucket(u, d).sessions)

\* A bucket holds a manual session and an absorbed one, both with earnings.
C4_Witness ==
    \E u \in DOMAIN data : \E d \in Dates(u) :
        /\ \E k \in DOMAIN Bucket(u, d).sessions :
              Bucket(u, d).sessions[k].source = "manual" /\ Bucket(u, d).sessions[k].earnings > 0
        /\ \E k \in DOMAIN Bucket(u, d).sessions :
              Bucket(u, d).sessions[k].source = "clickup" /\ Bucket(u, d).sessions[k].earnings > 0

(***************************************************************************)
(* C5. Running timers are excluded: an entry that is a running timer at    *)
(* the provider is carried by no session and is in no user's               *)
(* clickup_synced_entries; a sync does not mark an entry that its response *)
(* shows with a negative duration; and every entry that its response shows *)
(* with a non-negative duration is absorbed when the sync returns, also    *)
(* one that an earlier response showed as running.                         *)
(***************************************************************************)
C5_TimersExcluded ==
    /\ \A u \in DOMAIN data : \A id \in EntryIds :
          remote[id] = "running" =>
              id \notin data[u].clickup_synced_entries /\ Carriers(u, id) = {}
    /\ \A c \in Calls : Processed(c) =>
          LET u == call[c].user
              R == call[c].entries
          IN \A k \in DOMAIN R :
                IF R[k].duration < 0
                THEN R[k].id \in data[u].clickup_synced_entries
                        => R[k].id \in call[c].before[u].clickup_synced_entries
                ELSE R[k].id \in data[u].clickup_synced_entries /\ Carriers(u, R[k].id) # {}

\* A sync skipped an entry as a running timer; the timer was stopped, and the
\* next sync absorbed the entry.
C5_Witness ==
    \E c \in Calls : \E id \in EntryIds :
        /\ Processed(c)
        /\ call[c].prev.valid
        /\ HasEntry(call[c].prev.entries, id, TRUE)
        /\ HasEntry(call[c].entries, id, FALSE)
        /\ Carriers(call[c].user, id) # {}

(***************************************************************************)
(* C6. Rate snapshot: a step that changes a user's rate leaves every       *)
(* bucket (its sessions, their earnings, its totals), the absorbed ids and *)
(* the credentials as they were; a session appended by any step is priced  *)
(* at the rate in force when it is appended.                               *)
(***************************************************************************)
SessionsOn(ud, d) == IF d \in DOMAIN ud.work_sessions THEN ud.work_sessions[d].sessions ELSE <<>>

\* The exact duration of a session, in ms: what the user typed, or what the
\* provider recorded.
ExactDuration(session) ==
    IF session.source = "manual"
    THEN session.hours * MsPerHour + session.minutes * (MsPerHour \div 60)
    ELSE StoppedDuration(session.clickup_id)

C6_RateSnapshot ==
    [][\A u \in Users :
        LET old == LedgerOf(data, u)
            new == LedgerOf(data', u)
        IN /\ new.rate # old.rate =>
                /\ new.work_sessions = old.work_sessions
                /\ new.clickup_synced_entries = old.clickup_synced_entries
                /\ new.clickup_settings.api_token = old.clickup_settings.api_token
                /\ new.clickup_settings.workspace_id = old.clickup_settings.workspace_id
           /\ \A d \in DOMAIN new.work_sessions :
                \A k \in DOMAIN SessionsOn(new, d) :
                    k > Len(SessionsOn(old, d)) =>
                        SessionsOn(new, d)[k].earnings
                            = ExactDuration(SessionsOn(new, d)[k]) * old.rate]_vars

\* The rate is 2; a manual session entered at rate 1 still earns at rate 1,
\* and an entry absorbed after the change earns at rate 2.
C6_Witness ==
    \E u \in DOMAIN data :
        /\ data[u].rate = 2
        /\ \E d \in Dates(u) : \E k \in DOMAIN Bucket(u, d).sessions :
              LET s == Bucket(u, d).sessions[k]
              IN s.source = "manual" /\ s.earnings > 0 /\ s.earnings = ExactDuration(s)
        /\ \E d \in Dates(u) : \E k \in DOMAIN Bucket(u, d).sessions :
              LET s == Bucket(u, d).sessions[k]
              IN s.source = "clickup" /\ s.earnings > 0 /\ s.earnings = 2 * ExactDuration(s)

(***************************************************************************)
(* C7. A failure of the fetch step (the team id is not resolved, or the    *)
(* time entries request fails for good) makes sync_clickup_entries return  *)
(* success = False.                                                        *)
(***************************************************************************)
C7_FetchFailureReported ==
    \A c \in Calls :
        call[c].pc = "returned" /\ call[c].failed # "-" => ~call[c].result.success

(***************************************************************************)
(* C8. Retry exhaustion leaves the ledger untouched: when the time entries *)
(* request failed with a transient error on all 3 attempts, the store      *)
(* (rates, buckets, absorbed ids) is what it was when sync_clickup_entries *)
(* was called.                                                             *)
(***************************************************************************)
Exhausted(c) ==
    /\ call[c].pc = "returned"
    /\ call[c].failed = "entries"
    /\ call[c].nreq = max_retries
    /\ call[c].err.exc = "ClientError"

C8_ExhaustionLeavesLedger ==
    \A c \in Calls : Exhausted(c) => data = call[c].before

\* The retries of a sync are exhausted for a user who has absorbed entries.
C8_Witness ==
    \E c \in Calls :
        /\ Exhausted(c)
        /\ data[call[c].user].clickup_synced_entries # {}
        /\ data[call[c].user].rate > 0

(***************************************************************************)
(* C9. Bounded retry: retry_with_backoff invokes the request at most 3     *)
(* times; it is inside its loop after a failure only if that failure was   *)
(* an aiohttp.ClientError and was not the third; it is left with a result  *)
(* only by a response 200; and the exception that leaves it is the one the *)
(* last request raised.                                                    *)
(***************************************************************************)
InLoop(c) == call[c].pc \in {"team", "entries"}

LeftLoop(c) == call[c].pc \in {"fetched", "returned"} /\ call[c].last # NoResponse

RaisedBy(phase, resp) ==
    IF phase = "team" THEN fetch_team_id(resp, <<>>, None)
    ELSE fetch_time_entries(resp, <<>>)

C9_BoundedRetry ==
    \A c \in Calls :
        /\ InLoop(c) =>
              /\ call[c].nreq < max_retries
              /\ call[c].nreq > 0 =>
                    /\ call[c].caught = "ClientError"
                    /\ IsClientError(RaisedBy(call[c].pc, call[c].last))
        /\ LeftLoop(c) => call[c].nreq \in 1..max_retries
        /\ call[c].pc = "fetched" => call[c].last = [transport |-> "ok", status |-> 200]
        /\ call[c].pc = "returned" /\ call[c].failed \in {"team", "entries"} =>
              /\ RaisedBy(call[c].failed, call[c].last).kind = "raise"
              /\ call[c].err = RaisedBy(call[c].failed, call[c].last).error

\* The third request for the time entries is rate limited after two other
\* transient failures.
C9_Witness ==
    \E c \in Calls :
        /\ call[c].pc = "returned"
        /\ call[c].failed = "entries"
        /\ call[c].nreq = 3
        /\ call[c].last = [transport |-> "ok", status |-> 429]
        /\ call[c].err = [exc |-> "ClientError", msg |-> "rate limit"]

(***************************************************************************)
(* C10. A response 401 or 403 is not retried: no request follows it and no *)
(* sleep; the request it answers is the only one unless transient failures *)
(* came before it.                                                         *)
(***************************************************************************)
Unauthorized(resp) == resp.transport = "ok" /\ resp.status \in {401, 403}

BadRate(text) == ~text.numeric \/ text.value <= 0

C11_BadRateRefused ==
    [][\A u \in Users : \A text \in RateTexts :
          process_rate(u, text) /\ BadRate(text) =>
              /\ data' = data
              /\ disk' = disk
              /\ fsm' = fsm
              /\ reply'.text \in {"rate_not_positive", "rate_not_number"}]_vars

\* A rate was just refused for a user who has a rate, a bucket and an
\* absorbed entry.
C11_Witness ==
    \E u \in DOMAIN data :
        /\ reply = Answer(u, "rate_not_positive")
        /\ fsm[u] = "waiting_for_rate"
        /\ data[u].rate > 0
        /\ Dates(u) # {}
        /\ data[u].clickup_synced_entries # {}

(***************************************************************************)
(* C12. A manual duration that is not two integers, or has negative hours, *)
(* negative minutes or minutes >= 60, is refused: the step of process_time *)
(* that handles it answers with an error, creates no bucket, appends no    *)
(* session, changes no total and writes no file.                           *)
(***************************************************************************)
BadTime(text) ==
    \/ text.nparts # 2
    \/ ~text.ints
    \/ text.hours < 0
    \/ text.minutes < 0
    \/ text.minutes >= 60

C12_BadTimeRefused ==
    [][\A u \in Users : \A text \in TimeTexts :
          process_time(u, text) /\ BadTime(text) =>
              /\ data' = data
              /\ disk' = disk
              /\ fsm' = fsm
              /\ reply'.text \in {"time_bad_format", "time_not_number", "time_invalid"}]_vars

\* A duration was just refused for a user who has a bucket for yesterday and
\* none for today.
C12_Witness ==
    \E u \in DOMAIN data :
        /\ reply = Answer(u, "time_invalid")
        /\ fsm[u] = "waiting_for_time"
        /\ data[u].rate > 0
        /\ Dates(u) # {}
        /\ Today \notin Dates(u)

(***************************************************************************)
(* C13. NotConfigured fails fast: when sync_clickup_entries is entered for *)
(* a user without a token or without a workspace id, it returns a failure  *)
(* in that same step, has made no request, and the user's rate, buckets    *)
(* and absorbed ids are what they were.                                    *)
(***************************************************************************)
Unconfigured(u) ==
    \/ LedgerOf(data, u).clickup_settings.api_token = None
    \/ LedgerOf(data, u).clickup_settings.workspace_id = None

SameLedger(old, new) ==
    /\ new.rate = old.rate
    /\ new.work_sessions = old.work_sessions
    /\ new.clickup_synced_entries = old.clickup_synced_entries

C13_NotConfiguredFailsFast ==
    [][\A c \in Calls :
          call[c].pc = "cmd" /\ call'[c].pc # "cmd" /\ Unconfigured(call[c].user) =>
              /\ call'[c].pc = "returned"
              /\ call'[c].result = [success |-> FALSE, error |-> MsgNotConfigured]
              /\ call'[c].nreq = 0
              /\ call'[c].last = NoResponse
              /\ disk' = disk
              /\ SameLedger(LedgerOf(data, call[c].user), LedgerOf(data', call[c].user))]_vars

\* A sync returned NotConfigured for a user who has a rate and absorbed entries.
C13_Witness ==
    \E c \in Calls :
        /\ call[c].pc = "returned"
        /\ call[c].result = [success |-> FALSE, error |-> MsgNotConfigured]
        /\ data[call[c].user].rate > 0
        /\ data[call[c].user].clickup_synced_entries # {}

(***************************************************************************)
(* C14. The set of absorbed ids only grows: no step of any handler (sync,  *)
(* manual entry, rate, token, workspace, reset, with the save each of them *)
(* makes) removes an id from a user's clickup_synced_entries.              *)
(***************************************************************************)
C14_AbsorbedOnlyGrows ==
    [][\A u \in Users :
          LedgerOf(data, u).clickup_synced_entries
              \subseteq LedgerOf(data', u).clickup_synced_entries]_vars

\* The credentials were just reset for a user who has absorbed entries.
C14_Witness ==
    \E u \in DOMAIN data :
        /\ reply = Answer(u, "reset_done")
        /\ data[u].clickup_settings.api_token = None
        /\ data[u].clickup_synced_entries # {}

(***************************************************************************)
(* C15. The ledger is append-only: no step removes a date from a user's    *)
(* buckets, and the sessions a bucket had before the step are the first    *)
(* sessions it has after the step, field by field.                         *)
(***************************************************************************)
IsPrefix(old, new) == Len(old) <= Len(new) /\ SubSeq(new, 1, Len(old)) = old

C15_AppendOnly ==
    [][\A u \in Users :
          LET old == LedgerOf(data, u).work_sessions
              new == LedgerOf(data', u).work_sessions
          IN /\ DOMAIN old \subseteq DOMAIN new
             /\ \A d \in DOMAIN old : IsPrefix(old[d].sessions, new[d].sessions)]_vars

(***************************************************************************)
(* C16. The queries are read-only: a step of /today, /yesterday, /week,    *)
(* /weekdetails, /month or /tasksummary leaves the user's rate, buckets    *)
(* (sessions, their fields, totals) and absorbed ids, and the file, as     *)
(* they were.                                                              *)
(***************************************************************************)
QueryStep(u) ==
    \/ today_command(u)
    \/ yesterday_command(u)
    \/ week_command(u)
    \/ week_details_command(u)
    \/ month_command(u)
    \/ month_weeks_command(u)
    \/ year_command(u)
    \/ \E period \in Periods : task_summary_command(u, period)

C16_QueriesReadOnly ==
    [][\A u \in Users :
          QueryStep(u) =>
              /\ SameLedger(LedgerOf(data, u), LedgerOf(data', u))
              /\ disk' = disk]_vars

(***************************************************************************)
(* C17. Write-through: when a rate was just confirmed, a manual session    *)
(* just added, or a sync has returned success, the file holds for every    *)
(* user the rate, the buckets with their sessions and the absorbed ids     *)
(* that are in memory (a user the file does not have counts as a default   *)
(* ledger).                                                                *)
(***************************************************************************)
Completed ==
    \/ reply.text \in {"rate_set", "time_added", "sync_done", "sync_nothing"}
    \/ \E c \in Calls : call[c].pc = "returned" /\ call[c].result.success

C17_WriteThrough ==
    Completed =>
        \A u \in Users : SameLedger(LedgerOf(load_data(disk), u), LedgerOf(data, u))

(***************************************************************************)
(* C20. A sync reports only new work: when its loop has run, synced_count  *)
(* is the number of sessions the loop appended, total_hours the sum of the *)
(* durations of the entries they come from and total_earnings the sum of   *)
(* their earnings; entries skipped as absorbed or as running add nothing.  *)
(***************************************************************************)
\* The sessions a ledger has that an earlier ledger had not, date by date.
RECURSIVE Appended(_, _, _)
Appended(old, new, D) ==
    IF D = {} THEN <<>>
    ELSE LET d == CHOOSE x \in D : \A y \in D : x <= y
             had == IF d \in DOMAIN old THEN Len(old[d].sessions) ELSE 0
         IN SubSeq(new[d].sessions, had + 1, Len(new[d].sessions))
            \o Appended(old, new, D \ {d})

AppendedBy(c) ==
    LET u == call[c].user
    IN Appended(LedgerOf(call[c].before, u).work_sessions, data[u].work_sessions, Dates(u))

RECURSIVE SumExact(_)
SumExact(sessions) ==
    IF sessions = <<>> THEN 0
    ELSE ExactDuration(Head(sessions)) + SumExact(Tail(sessions))

C20_ReportsOnlyNew ==
    \A c \in Calls :
        Processed(c) /\ call[c].entries # <<>> =>
            /\ call[c].result.synced_count = Len(AppendedBy(c))
            /\ call[c].result.total_hours = SumExact(AppendedBy(c))
            /\ call[c].result.total_earnings = SumEarnings(AppendedBy(c))
            /\ \A k \in DOMAIN AppendedBy(c) :
                  /\ AppendedBy(c)[k].source = "clickup"
                  /\ AppendedBy(c)[k].clickup_id
                        \notin LedgerOf(call[c].before, call[c].user).clickup_synced_entries

\* A sync absorbed one entry of a response that also held an entry absorbed
\* before.
C20_Witness ==
    \E c \in Calls :
        /\ Processed(c)
        /\ call[c].result.synced_count = 1
        /\ call[c].result.total_hours > 0
        /\ \E k \in DOMAIN call[c].entries :
              call[c].entries[k].id
                  \in LedgerOf(call[c].before, call[c].user).clickup_synced_entries

(***************************************************************************)
(* C18. Lenient load: when the bot starts and the file is absent, or it    *)
(* exists but cannot be opened or parsed, load_data gives the empty store; *)
(* the start goes through and the file is left as it is.                   *)
(***************************************************************************)
Unusable(file) == ~file.exists \/ file.state # "ok"

C18_LenientLoad ==
    [][Restart /\ Unusable(disk) =>
          /\ data' = <<>>
          /\ disk' = disk
          /\ \A u \in Users : fsm'[u] = "none"]_vars

\* The bot runs on an empty store next to a damaged file that holds a ledger
\* with a rate and a session.
C18_Witness ==
    /\ data = <<>>
    /\ reply = NoReply
    /\ disk.exists
    /\ disk.state \in Damages
    /\ \E u \in DOMAIN disk.doc :
          disk.doc[u].rate > 0 /\ DOMAIN disk.doc[u].work_sessions # {}

(***************************************************************************)
(* C19. Week-to-date: /week on day D adds up exactly the buckets dated     *)
(* from the Monday of D's week through D, and counts those of these dates  *)
(* that have a bucket.  With sessions on a Monday and the following Sunday *)
(* only, it reports 2 days and both days' hours on that Sunday, and 0 days *)
(* on the Monday after.                                                    *)
(***************************************************************************)
WeekToDate(u) ==
    {d \in DOMAIN LedgerOf(data, u).work_sessions :
        /\ d <= Today
        /\ Today - d <= 6
        /\ Weekday(d) <= Weekday(Today)}

RECURSIVE HoursOn(_, _)
HoursOn(ws, D) ==
    IF D = {} THEN 0
    ELSE LET d == CHOOSE x \in D : TRUE
         IN ws[d].total_hours + HoursOn(ws, D \ {d})

RECURSIVE EarningsOn(_, _)
EarningsOn(ws, D) ==
    IF D = {} THEN 0
    ELSE LET d == CHOOSE x \in D : TRUE
         IN ws[d].total_earnings + EarningsOn(ws, D \ {d})

C19_WeekToDate ==
    [][\A u \in Users :
          week_command(u) =>
              /\ reply'.to = u
              /\ reply'.days_worked = Cardinality(WeekToDate(u))
              /\ reply'.total_hours = HoursOn(LedgerOf(data, u).work_sessions, WeekToDate(u))
              /\ reply'.total_earnings
                    = EarningsOn(LedgerOf(data, u).work_sessions, WeekToDate(u))
              /\ reply'.text = "week_none" <=> WeekToDate(u) = {}]_vars

\* Sessions on Monday (day 2) and the following Sunday (day 8) only: on that
\* Sunday /week has reported 2 days and the hours of both.
C19_Witness ==
    \E u \in DOMAIN data :
        /\ Today = 8
        /\ Weekday(Today) = 6
        /\ Dates(u) = {2, 8}
        /\ reply = AnswerPeriod(u, "week",
                       [days_worked |-> 2,
                        total_hours |-> Bucket(u, 2).total_hours + Bucket(u, 8).total_hours,
                        total_earnings |-> Bucket(u, 2).total_earnings
                                           + Bucket(u, 8).total_earnings])
        /\ reply.total_hours > 0

(***************************************************************************)
(* C21. Every unseen entry is absorbed exactly once: when a sync has run   *)
(* its loop, every entry of the response that has a duration >= 0 (zero    *)
(* included) and whose id was not synchronised before the loop is carried  *)
(* by exactly one session, which the loop appended; entries of different   *)
(* ids are carried by different sessions.                                  *)
(***************************************************************************)
CarriersIn(ud, id) ==
    UNION {{<<d, k>> : k \in {j \in DOMAIN ud.work_sessions[d].sessions :
                                /\ ud.work_sessions[d].sessions[j].source = "clickup"
                                /\ ud.work_sessions[d].sessions[j].clickup_id = id}} :
           d \in DOMAIN ud.work_sessions}

C21_UnseenAbsorbedOnce ==
    \A c \in Calls :
        Processed(c) /\ call[c].entries # <<>> =>
            LET u == call[c].user
                old == call[c].before[u]
            IN /\ \A id \in Eligible(call[c].entries, old) :
                      /\ CarriersIn(old, id) = {}
                      /\ Cardinality(CarriersIn(data[u], id)) = 1
               /\ \A i, j \in Eligible(call[c].entries, old) :
                      i # j => CarriersIn(data[u], i) \cap CarriersIn(data[u], j) = {}
               /\ call[c].result.synced_count
                      = Cardinality(Eligible(call[c].entries, old))

\* A sync has absorbed two unseen entries at once, one of them of duration 0.
C21_Witness ==
    \E c \in Calls :
        /\ Processed(c)
        /\ Cardinality(Eligible(call[c].entries, call[c].before[call[c].user])) = 2
        /\ \E k \in DOMAIN call[c].entries :
              /\ call[c].entries[k].duration = 0
              /\ call[c].entries[k].id \notin
                    call[c].before[call[c].user].clickup_synced_entries
              /\ Cardinality(CarriersIn(data[call[c].user], call[c].entries[k].id)) = 1

(***************************************************************************)
(* C22. No duplicate absorption under concurrent syncs: with two syncs of  *)
(* one user in flight at once over overlapping windows, taking turns at    *)
(* their awaits, no id is carried by two sessions, and every bucket's      *)
(* totals are the sums of the durations and the earnings of its sessions,  *)
(* each counted once.                                                      *)
(***************************************************************************)
C22_NoDuplicateUnderConcurrency ==
    \A u \in DOMAIN data :
        /\ \A id \in EntryIds :
              /\ Cardinality(Carriers(u, id)) <= 1
              /\ Carriers(u, id) # {} => id \in data[u].clickup_synced_entries
        /\ \A d \in Dates(u) :
              /\ Bucket(u, d).total_hours = SumExact(Bucket(u, d).sessions)
              /\ Bucket(u, d).total_earnings = SumEarnings(Bucket(u, d).sessions)

\* Two syncs of one user are in flight; the second fetched an entry while it
\* was not synchronised, the first absorbed it before the second's loop ran,
\* and the second skipped it.
C22_Witness ==
    \E a, b \in Calls : \E id \in EntryIds :
        /\ a # b
        /\ call[a].user = call[b].user
        /\ call[a].pc = "returned" /\ call[b].pc = "returned"
        /\ Processed(a) /\ Processed(b)
        /\ HasEntry(call[a].entries, id, FALSE)
        /\ HasEntry(call[b].entries, id, FALSE)
        /\ id \notin call[a].known /\ id \notin call[b].known
        /\ id \notin call[a].before[call[a].user].clickup_synced_entries
        /\ id \in call[b].before[call[b].user].clickup_synced_entries
        /\ Cardinality(Carriers(call[a].user, id)) = 1

(***************************************************************************)
(* C23. Per-user isolation: a step of a sync, of a manual entry or of a    *)
(* rate change of user A leaves the rate, the buckets and the absorbed ids *)
(* of every other user B as they were, also while syncs of A and of B are  *)
(* both in flight; and a sync of B absorbs every entry B has not absorbed, *)
(* whether or not A absorbed it.                                           *)
(***************************************************************************)
StepOf(A) ==
    \/ set_rate_command(A)
    \/ \E text \in RateTexts : process_rate(A, text)
    \/ add_time_command(A)
    \/ \E text \in TimeTexts : process_time(A, text)
    \/ \E c \in Calls, days \in {0} \cup SyncDays : sync_command(c, A, days)
    \/ \E c \in Calls :
          /\ call[c].user = A
          /\ \/ sync_clickup_entries_begin(c)
             \/ \E resp \in Responses, teams \in TeamLists : get_team_id(c, resp, teams)
             \/ \E resp \in Responses : get_time_entries(c, resp)
             \/ sync_clickup_entries(c)
             \/ sync_answer(c)

C23_PerUserIsolation ==
    [][/\ \A A, B \in Users :
            A # B /\ StepOf(A) =>
                /\ SameLedger(LedgerOf(data, B), LedgerOf(data', B))
                /\ LedgerOf(data', B).clickup_settings = LedgerOf(data, B).clickup_settings
       /\ \A c \in Calls :
            sync_clickup_entries(c) =>
                \A id \in Eligible(call[c].entries, data[call[c].user]) :
                    /\ id \in data'[call[c].user].clickup_synced_entries
                    /\ Cardinality(CarriersIn(data'[call[c].user], id)) = 1]_vars

\* Both users carry the same entry, and the sync of the second absorbed it
\* while a sync of the first, which had absorbed it, was still in flight.
C23_Witness ==
    \E id \in EntryIds :
        /\ call["b"].pc = "returned" /\ call["b"].user = "u2" /\ Processed("b")
        /\ call["b"].entries # <<>>
        /\ "u1" \in DOMAIN data /\ "u1" \in DOMAIN call["b"].before
        /\ Cardinality(Carriers("u1", id)) = 1
        /\ Cardinality(Carriers("u2", id)) = 1
        /\ id \in Eligible(call["b"].entries, call["b"].before["u2"])
        /\ id \in call["b"].before["u1"].clickup_synced_entries
        /\ call["a"].pc = "returned" /\ call["a"].user = "u1"
        /\ ManualCount("u1") = 1

(***************************************************************************)
(* C24. An unexpected HTTP status of the time-entries request (not 200,    *)
(* 401, 403 or 429; for example 500) is not retried: no request follows    *)
(* it, so it is the answer to the only request made or to the last one,    *)
(* and the sync reports the failure to its caller.                         *)
(***************************************************************************)
Unexpected(resp) == resp.transport = "ok" /\ resp.status \notin {200, 401, 403, 429}

C24_UnexpectedStatusNotRetried ==
    \A c \in Calls :
        /\ call[c].pc = "entries" => ~Unexpected(call[c].last)
        /\ call[c].pc = "returned" /\ call[c].failed = "entries" /\ Unexpected(call[c].last) =>
              /\ Len(call[c].slept) = call[c].nreq - 1
              /\ call[c].slept = <<>> => call[c].nreq = 1
              /\ ~call[c].result.success

(***************************************************************************)
(* C25. Exponential backoff: the wait between failed attempt i and attempt *)
(* i + 1 (i from 0) is backoff_factor * 2^i seconds, 1 s and then 2 s; no  *)
(* wait follows the last failed attempt, a success or a failure that is    *)
(* not retried.                                                            *)
(***************************************************************************)
Schedule(n) == [i \in 1..n |-> backoff_factor * (2 ^ (i - 1))]

C25_BackoffSchedule ==
    \A c \in Calls :
        /\ InLoop(c) => call[c].slept = Schedule(call[c].nreq)
        /\ LeftLoop(c) => call[c].slept = Schedule(call[c].nreq - 1)
        /\ call[c].slept \in {<<>>, <<1>>, <<1, 2>>}

\* The loop was left by its third request, which failed in transport, after
\* the waits of 1 s and 2 s and with no wait after it.
C25_Witness ==
    \E c \in Calls :
        /\ LeftLoop(c)
        /\ call[c].nreq = max_retries
        /\ call[c].slept = <<backoff_factor, 2 * backoff_factor>>
        /\ call[c].last.transport \in {"conn_error", "timeout"}

(***************************************************************************)
(* C26. The month in weeks: the first week of /monthweeks runs from day 1  *)
(* of the month to the first Sunday on or after it, every later week from  *)
(* a Monday to the Sunday after it, and every end is cut at the last day   *)
(* of the month and at today; the weeks are disjoint, follow each other    *)
(* without a gap and cover exactly day 1 to today, every week's hours and  *)
(* earnings are the sums of its dates' buckets, and the month total that   *)
(* is reported is the sum of the buckets of those dates.                   *)
(***************************************************************************)
FirstSunday(first) == CHOOSE d \in first..(first + 6) : Weekday(d) = 6

MonthToDate(ws) == {d \in DOMAIN ws : MonthFirst(Today) <= d /\ d <= Today}

C26_MonthWeeksPartition ==
    [][\A u \in Users :
          month_weeks_command(u) =>
              LET ws == LedgerOf(data, u).work_sessions
                  first == MonthFirst(Today)
                  P == MonthWeeks(ws, first, 1)
              IN /\ P # <<>>
                 /\ P[1].start = first
                 /\ P[1].end = Min(FirstSunday(first), Min(MonthLast(Today), Today))
                 /\ P[Len(P)].end = Today
                 /\ \A k \in DOMAIN P :
                       /\ P[k].start <= P[k].end
                       /\ P[k].end <= MonthLast(Today)
                       /\ P[k].hours = HoursOn(ws, {d \in DOMAIN ws :
                                                      P[k].start <= d /\ d <= P[k].end})
                       /\ P[k].earnings = EarningsOn(ws, {d \in DOMAIN ws :
                                                      P[k].start <= d /\ d <= P[k].end})
                       /\ k > 1 =>
                             /\ P[k].start = P[k - 1].end + 1
                             /\ Weekday(P[k].start) = 0
                             /\ P[k].end = Min(P[k].start + 6, Min(MonthLast(Today), Today))
                 /\ reply'.total_hours = HoursOn(ws, MonthToDate(ws))
                 /\ reply'.total_earnings = EarningsOn(ws, MonthToDate(ws))]_vars

\* /monthweeks on Monday the 9th of a month that began on a Sunday: the
\* weeks are the 1st, the 2nd to the 8th and the 9th alone, all with work.
C26_Witness ==
    /\ Today = 9
    /\ reply.text = "monthweeks"
    /\ Len(reply.weeks) = 3
    /\ reply.weeks[1].start = 1 /\ reply.weeks[1].end = 1
    /\ reply.weeks[2].start = 2 /\ reply.weeks[2].end = 8
    /\ reply.weeks[3].start = 9 /\ reply.weeks[3].end = 9
    /\ reply.total_hours
          = reply.weeks[1].hours + reply.weeks[2].hours + reply.weeks[3].hours

(***************************************************************************)
(* C27. Week numbers of /monthweeks: a week is listed if and only if its   *)
(* hours are greater than 0, and the number shown for it is its position,  *)
(* from 1, among all the weeks of the month up to today, so a week without *)
(* hours that is left out still takes its number.                          *)
(***************************************************************************)
\* The position of the week of a date among the weeks of its month.
WeekOfMonth(date) ==
    IF date <= FirstSunday(MonthFirst(date)) THEN 1
    ELSE 2 + ((date - FirstSunday(MonthFirst(date)) - 1) \div 7)

DatesOfWeek(ws, n) == {d \in MonthToDate(ws) : WeekOfMonth(d) = n}

C27_WeekNumbering ==
    [][\A u \in Users :
          month_weeks_command(u) =>
              LET ws == LedgerOf(data, u).work_sessions
                  W == reply'.weeks
              IN /\ \A n \in 1..WeekOfMonth(Today) :
                       HoursOn(ws, DatesOfWeek(ws, n)) > 0
                           <=> \E k \in DOMAIN W : W[k].number = n
                 /\ \A k \in DOMAIN W :
                       /\ W[k].number \in 1..WeekOfMonth(Today)
                       /\ W[k].number = WeekOfMonth(W[k].start)
                       /\ W[k].hours = HoursOn(ws, DatesOfWeek(ws, W[k].number))
                       /\ W[k].hours > 0
                       /\ k > 1 => W[k - 1].number < W[k].number
                 /\ reply'.text = "monthweeks_none" <=> W = <<>>]_vars

\* Work on the 1st and on the 9th only: the weeks listed are number 1 and
\* number 3.
C27_Witness ==
    /\ Today = 9
    /\ reply.text = "monthweeks"
    /\ Len(reply.weeks) = 2
    /\ reply.weeks[1].number = 1
    /\ reply.weeks[2].number = 3
    /\ \E u \in DOMAIN data : Dates(u) = {1, 9}

(***************************************************************************)
(* C28. /month is the last 30 days, not the calendar month: it adds up     *)
(* exactly the buckets of the 30 dates from today - 29 to today.  A bucket *)
(* dated today - 30 is left out even when it is in the current calendar    *)
(* month, and a bucket of the month before that is within the last 29 days *)
(* is counted.                                                             *)
(***************************************************************************)
LastThirtyDays(ws) == {d \in DOMAIN ws : Today - d >= 0 /\ Today - d <= 29}

C28_TrailingThirtyDays ==
    [][\A u \in Users :
          month_command(u) =>
              LET ws == LedgerOf(data, u).work_sessions
              IN /\ reply'.to = u
                 /\ reply'.days_worked = Cardinality(LastThirtyDays(ws))
                 /\ reply'.total_hours = HoursOn(ws, LastThirtyDays(ws))
                 /\ reply'.total_earnings = EarningsOn(ws, LastThirtyDays(ws))
                 /\ reply'.text = "month_none" <=> LastThirtyDays(ws) = {}]_vars

\* On the 31st of a month the user has worked on the 1st, the 2nd and the
\* 31st of that month; /month has counted the 2nd and the 31st.
C28_Witness ==
    \E u \in DOMAIN data :
        /\ Today = MonthLast(Today)
        /\ Dates(u) = {Today - 30, Today - 29, Today}
        /\ MonthFirst(Today - 30) = MonthFirst(Today)
        /\ reply = AnswerPeriod(u, "month",
                       [days_worked |-> 2,
                        total_hours |-> Bucket(u, Today - 29).total_hours
                                        + Bucket(u, Today).total_hours,
                        total_earnings |-> Bucket(u, Today - 29).total_earnings
                                           + Bucket(u, Today).total_earnings])

(***************************************************************************)
(* C29. Date and order: the session of every entry a sync absorbs is       *)
(* appended to the bucket of the local date of the entry's start instant,  *)
(* which need not be the date of the sync nor lie in the window asked for; *)
(* in every bucket the sessions of one sync stand in the order in which    *)
(* the provider listed their entries, after the sessions the bucket had.   *)
(***************************************************************************)
\* The ids of the entries of a response that the loop absorbs into the bucket
\* of a date, in the order of the response.
RECURSIVE AbsorbedInto(_, _, _)
AbsorbedInto(entries, seen, date) ==
    IF entries = <<>> THEN <<>>
    ELSE LET e == Head(entries)
             skip == e.duration < 0 \/ e.id \in seen
         IN (IF ~skip /\ e.start >= (date - 1) * MsPerDay /\ e.start < date * MsPerDay
             THEN <<e.id>> ELSE <<>>)
            \o AbsorbedInto(Tail(entries), IF skip THEN seen ELSE seen \cup {e.id}, date)

SessionIds(sessions) == [k \in DOMAIN sessions |-> sessions[k].clickup_id]

C29_DateAndOrder ==
    [][\A c \in Calls :
          sync_clickup_entries(c) /\ call[c].entries # <<>> =>
              LET u == call[c].user
                  old == data[u].work_sessions
                  new == data'[u].work_sessions
              IN \A d \in DOMAIN new :
                    LET had == IF d \in DOMAIN old THEN old[d].sessions ELSE <<>>
                        added == SubSeq(new[d].sessions, Len(had) + 1, Len(new[d].sessions))
                    IN /\ IsPrefix(had, new[d].sessions)
                       /\ \A k \in DOMAIN added : added[k].source = "clickup"
                       /\ SessionIds(added)
                             = AbsorbedInto(call[c].entries,
                                            data[u].clickup_synced_entries, d)
                       /\ d \notin DOMAIN old => added # <<>>]_vars

\* Today's bucket holds the manual session it had and then the sessions of
\* entries 1 and 2 in the order of the response, which listed the later entry
\* first; the entry older than the window is in the bucket of its own date.
C29_Witness ==
    \E c \in Calls :
        /\ Processed(c)
        /\ call[c].entries[1].id = 1
        /\ Len(call[c].entries) = 3
        /\ call[c].entries[2].id = 2
        /\ call[c].entries[3].id = 4
        /\ call[c].entries[1].start > call[c].entries[2].start
        /\ LET ws == data[call[c].user].work_sessions
           IN /\ DOMAIN ws = {-10, 2}
              /\ Len(ws[2].sessions) = 3
              /\ ws[2].sessions[1].source = "manual"
              /\ ws[2].sessions[2].clickup_id = 1
              /\ ws[2].sessions[3].clickup_id = 2
              /\ ws[-10].sessions[1].clickup_id = 4
              /\ Today = 2

(***************************************************************************)
(* C30. Grouping by task: /tasksummary puts every session of the dates     *)
(* asked for in exactly one group, that of its task_name when its source   *)
(* is clickup and that of the manual label otherwise.  For every group,    *)
(* sessions_count is the number of its sessions, total_earnings the sum of *)
(* their earnings, first_session <= last_session the least and the         *)
(* greatest of their timestamps; total_sessions is the number of sessions  *)
(* of those dates.                                                         *)
(***************************************************************************)
\* The places <<date, index>> of the sessions of the dates first..last.
PlacesIn(ws, first, last) ==
    UNION {{<<d, k>> : k \in DOMAIN ws[d].sessions} :
           d \in {x \in DOMAIN ws : first <= x /\ x <= last}}

GroupKey(session) == IF session.source = "clickup" THEN session.task_name ELSE ManualLabel

RECURSIVE EarningsAt(_, _)
EarningsAt(ws, places) ==
    IF places = {} THEN 0
    ELSE LET p == CHOOSE x \in places : TRUE
         IN ws[p[1]].sessions[p[2]].earnings + EarningsAt(ws, places \ {p})

C30_GroupingByTask ==
    [][\A u \in Users : \A period \in LoopPeriods :
          task_summary_command(u, period) /\ reply'.text = "tasksummary" =>
              LET ws == LedgerOf(data, u).work_sessions
                  all == PlacesIn(ws, PeriodFirst(period), PeriodLast(period))
                  At(p) == ws[p[1]].sessions[p[2]]
                  members(n) == {p \in all : GroupKey(At(p)) = n}
                  T == reply'.summary.tasks
              IN /\ DOMAIN T = {GroupKey(At(p)) : p \in all}
                 /\ reply'.summary.total_sessions = Cardinality(all)
                 /\ reply'.summary.total_tasks = Cardinality(DOMAIN T)
                 /\ reply'.summary.total_earnings = EarningsAt(ws, all)
                 /\ \A n \in DOMAIN T :
                       /\ T[n].task_name = n
                       /\ T[n].sessions_count = Cardinality(members(n))
                       /\ Len(T[n].sessions) = Cardinality(members(n))
                       /\ \A k \in DOMAIN T[n].sessions :
                             /\ GroupKey(T[n].sessions[k]) = n
                             /\ \E p \in members(n) :
                                   /\ T[n].sessions[k].date = p[1]
                                   /\ T[n].sessions[k].timestamp = At(p).timestamp
                                   /\ T[n].sessions[k].earnings = At(p).earnings
                       /\ T[n].total_earnings = EarningsAt(ws, members(n))
                       /\ Len(T[n].first_session) = 1 /\ Len(T[n].last_session) = 1
                       /\ T[n].first_session[1] <= T[n].last_session[1]
                       /\ \E p \in members(n) : At(p).timestamp = T[n].first_session[1]
                       /\ \E p \in members(n) : At(p).timestamp = T[n].last_session[1]
                       /\ \A p \in members(n) :
                             /\ T[n].first_session[1] <= At(p).timestamp
                             /\ At(p).timestamp <= T[n].last_session[1]]_vars

\* A summary of four sessions in two groups: the two manual sessions of
\* yesterday and today, and the two sessions of task A, of which the one met
\* first is the later one.
C30_Witness ==
    /\ reply.text = "tasksummary"
    /\ reply.summary.total_sessions = 4
    /\ DOMAIN reply.summary.tasks = {ManualLabel, "A"}
    /\ reply.summary.tasks[ManualLabel].sessions_count = 2
    /\ reply.summary.tasks["A"].sessions_count = 2
    /\ reply.summary.tasks["A"].sessions[1].timestamp
          > reply.summary.tasks["A"].sessions[2].timestamp
    /\ reply.summary.tasks["A"].first_session
          = <<reply.summary.tasks["A"].sessions[2].timestamp>>
    /\ reply.summary.tasks["A"].last_session
          = <<reply.summary.tasks["A"].sessions[1].timestamp>>

(***************************************************************************)
(* C31. No division by zero in the totals: /week and /month show the       *)
(* average per worked day, and /year the average per month, exactly when   *)
(* the number of worked days, respectively of months with work, is greater *)
(* than 0, and the divisor is that number; otherwise the answer has no     *)
(* average and nothing is divided.                                         *)
(***************************************************************************)
MonthsWorked(ws) == {MonthOf(d) : d \in {x \in DOMAIN ws : YearOf(x) = YearOf(Today)}}

Averaged(answer, count) ==
    IF count > 0
    THEN /\ "average" \in DOMAIN answer
         /\ answer.average.kind = "return"
         /\ answer.average.value = <<answer.total_earnings, count>>
    ELSE "average" \notin DOMAIN answer

C31_NoDivisionByZero ==
    [][\A u \in Users :
          LET ws == LedgerOf(data, u).work_sessions
          IN /\ week_command(u) => Averaged(reply', Cardinality(WeekToDate(u)))
             /\ month_command(u) => Averaged(reply', Cardinality(LastThirtyDays(ws)))
             /\ year_command(u) => Averaged(reply', Cardinality(MonthsWorked(ws)))]_vars

\* The only work of the user was done the year before: /year has answered
\* that the year has no records, without an average.
C31_Witness ==
    \E u \in DOMAIN data :
        /\ Dates(u) # {}
        /\ \A d \in Dates(u) : YearOf(d) < YearOf(Today)
        /\ reply.to = u
        /\ reply.text = "year_none"
        /\ "average" \notin DOMAIN reply

(***************************************************************************)
(* C32. Scope caching: a client holds a team id exactly when one of its    *)
(* get_team_id calls has returned an id; every call after such a call      *)
(* sends no request and returns the same id; and as long as no call has    *)
(* returned an id (a 401 or 403, exhausted retries, no team), every call   *)
(* sends at least one request.                                             *)
(***************************************************************************)
C32_ScopeCaching ==
    \A c \in Calls :
        call[c].pc \in {"client", "team_call"} =>
            LET calls == call[c].calls
                Hit(k) == Truthy(calls[k].value)
            IN /\ Truthy(call[c].client.team_id) <=> \E k \in DOMAIN calls : Hit(k)
               /\ \A j, k \in DOMAIN calls :
                     j < k /\ Hit(j) => calls[k].requests = 0 /\ calls[k].value = calls[j].value
               /\ \A k \in DOMAIN calls :
                     (\A j \in 1..(k - 1) : ~Hit(j)) => calls[k].requests >= 1

\* Three calls on one client: the first was refused with a 401 after one
\* request, the second found the team, the third returned the same id
\* without a request.
C32_Witness ==
    \E c \in Calls :
        /\ call[c].pc = "client"
        /\ Len(call[c].calls) = 3
        /\ call[c].calls[1] = [value |-> None, requests |-> 1]
        /\ Truthy(call[c].calls[2].value)
        /\ call[c].calls[2].requests >= 1
        /\ call[c].calls[3] = [value |-> call[c].calls[2].value, requests |-> 0]

(***************************************************************************)
(* C33. Persistence round trip: whenever the store is saved, loading the   *)
(* file yields the store in memory: the same users, and for every user the *)
(* same rate, buckets and settings and, as a set again, the same           *)
(* synchronised ids, which the file holds as a list without repetitions;   *)
(* the ids in memory are still a set after the save.                       *)
(***************************************************************************)
Saves == disk'.exists /\ disk'.state = "ok" /\ disk' # disk

C33_RoundTrip ==
    [][Saves =>
          /\ load_data(disk') = data'
          /\ DOMAIN disk'.doc = DOMAIN data'
          /\ \A u \in DOMAIN data' :
                LET saved == disk'.doc[u]
                    ids == saved.clickup_synced_entries
                IN /\ saved.rate = data'[u].rate
                   /\ saved.work_sessions = data'[u].work_sessions
                   /\ saved.clickup_settings = data'[u].clickup_settings
                   /\ ids \in Seq(EntryIds)
                   /\ \A j, k \in DOMAIN ids : j # k => ids[j] # ids[k]
                   /\ ListToSet(ids) = data'[u].clickup_synced_entries
                   /\ IsFiniteSet(data'[u].clickup_synced_entries)
                   /\ Cardinality(data'[u].clickup_synced_entries) = Len(ids)]_vars

\* The bot has been started again on a file that holds a rate, a session and
\* two synchronised ids: the store in memory is the one that was saved.
C33_Witness ==
    /\ reply = NoReply
    /\ \E u \in DOMAIN data :
          /\ data[u].rate > 0
          /\ Cardinality(data[u].clickup_synced_entries) = 2
          /\ disk.state = "ok"
          /\ Len(disk.doc[u].clickup_synced_entries) = 2
          /\ data = load_data(disk)

(***************************************************************************)
(* C34. A failed sync changes nothing: whenever sync_clickup_entries       *)
(* returns success = False, be it for an exception at an entry of the      *)
(* response or for a failure of the save, the user's buckets and           *)
(* synchronised ids in memory are those of before the call.                *)
(***************************************************************************)
C34_FailedSyncChangesNothing ==
    [][\A c \in Calls :
          sync_clickup_entries(c) /\ ~call'[c].result.success =>
              SameLedger(data[call[c].user], data'[call[c].user])]_vars

(***************************************************************************)
(* C35. Worked days have work: every bucket of a ledger has total_hours    *)
(* greater than 0, so that the days counted by /week and /month, which     *)
(* count the buckets, are the dates with hours.                            *)
(***************************************************************************)
C35_WorkedDaysHaveWork ==
    \A u \in DOMAIN data :
        \A d \in Dates(u) : Bucket(u, d).total_hours > 0

(***************************************************************************)
(* C36. Groups never mix sources: in the groups a task summary shows, the  *)
(* source of every session of a group is the source_type of the group, so  *)
(* no group holds a manual session and a session from the provider,        *)
(* whatever the tasks at the provider are named.                           *)
(***************************************************************************)
C36_GroupsNeverMixSources ==
    reply.text = "tasksummary" =>
        \A name \in DOMAIN reply.summary.tasks :
            LET task_data == reply.summary.tasks[name]
            IN \A k \in DOMAIN task_data.sessions :
                  task_data.sessions[k].source = task_data.source_type

(***************************************************************************)
(* C37. Scope resolution respects the configured workspace: every id that  *)
(* a get_team_id call returns is the workspace id the client was built     *)
(* with, which is the one the user configured.                             *)
(***************************************************************************)
C37_ScopeIsConfiguredWorkspace ==
    \A c \in Calls :
        call[c].pc \in {"client", "team_call"} =>
            \A k \in DOMAIN call[c].calls :
                Truthy(call[c].calls[k].value) =>
                    call[c].calls[k].value = call[c].client.workspace_id

(***************************************************************************)
(* C38. Input states end only on accepted input.  For a chat that waits    *)
(* for a rate or for a time: a message other than /start, /help, /setrate  *)
(* (and /addtime when a time is awaited), other commands such as /today    *)
(* included, is answered by the handler of the state; the state is cleared *)
(* exactly when that message is accepted, and then it is stored; a         *)
(* rejected message leaves the state and the ledger as they were.          *)
(***************************************************************************)
Reserved(state) ==
    IF state = "waiting_for_rate" THEN {"start", "help", "setrate"}
    ELSE {"start", "help", "setrate", "addtime"}

GoodRate(m) == m.kind = "text" /\ m.rate.numeric /\ m.rate.value > 0

GoodTime(m) ==
    /\ m.kind = "text" /\ m.time.nparts = 2 /\ m.time.ints
    /\ m.time.hours >= 0 /\ m.time.minutes >= 0 /\ m.time.minutes <= 59

StateAnswers(state) ==
    IF state = "waiting_for_rate" THEN {"rate_set", "rate_not_positive", "rate_not_number"}
    ELSE {"time_added", "time_bad_format", "time_not_number", "time_invalid"}

SessionCount(d, u) ==
    IF u \in DOMAIN d /\ Today \in DOMAIN d[u].work_sessions
    THEN Len(d[u].work_sessions[Today].sessions) ELSE 0

StateHandler(state) == IF state = "waiting_for_rate" THEN "process_rate" ELSE "process_time"

C38_InputStates ==
    [][\A u \in Users, m \in Messages :
          fsm[u] \in {"waiting_for_rate", "waiting_for_time"} =>
              LET accepted == IF fsm[u] = "waiting_for_rate" THEN GoodRate(m) ELSE GoodTime(m)
                  input == ~(m.kind = "command" /\ m.name \in Reserved(fsm[u]))
              IN /\ input => Dispatch(fsm[u], m) = StateHandler(fsm[u])
                 /\ Deliver(u, m) =>
                    /\ fsm'[u] = "none" <=> input /\ accepted
                    /\ input => reply'.to = u /\ reply'.text \in StateAnswers(fsm[u])
                    /\ input /\ accepted =>
                          /\ disk' = Persist(data')
                          /\ IF fsm[u] = "waiting_for_rate"
                             THEN data'[u].rate = m.rate.value
                             ELSE SessionCount(data', u) = SessionCount(data, u) + 1
                    /\ input /\ ~accepted =>
                          fsm'[u] = fsm[u] /\ UNCHANGED <<data, disk>>]_vars

\* A chat that waits for a time has been told that the format is wrong, as
\* after /today, and still waits; nothing has been recorded.
C38_Witness ==
    \E u \in DOMAIN data :
        /\ fsm[u] = "waiting_for_time"
        /\ reply = Answer(u, "time_bad_format")
        /\ data[u].rate > 0
        /\ Dates(u) = {}

(***************************************************************************)
(* C39. No session is recorded while the rate is unset: whenever a session *)
(* is appended to a bucket, the rate of the user is greater than 0 and the *)
(* earnings of the session are its duration times that rate; and a rate    *)
(* that is greater than 0 stays greater than 0.                            *)
(***************************************************************************)
SessionsOf(d, u, date) ==
    IF u \in DOMAIN d /\ date \in DOMAIN d[u].work_sessions
    THEN d[u].work_sessions[date].sessions ELSE <<>>

SessionDuration(session) ==
    IF session.source = "manual"
    THEN session.hours * MsPerHour + session.minutes * (MsPerHour \div 60)
    ELSE RemoteEntry(session.clickup_id).duration

C39_RecordedAtPositiveRate ==
    [][\A u \in DOMAIN data' :
          /\ \A date \in DOMAIN data'[u].work_sessions :
                \A k \in DOMAIN SessionsOf(data', u, date) :
                    k > Len(SessionsOf(data, u, date)) =>
                        /\ FloatGt(data'[u].rate, 0)
                        /\ SessionsOf(data', u, date)[k].earnings
                              = SessionDuration(SessionsOf(data', u, date)[k]) * data'[u].rate
          /\ u \in DOMAIN data /\ FloatGt(data[u].rate, 0) => FloatGt(data'[u].rate, 0)]_vars

(***************************************************************************)
(* C40. The loop of /monthweeks terminates for every current date, in      *)
(* months of 28 to 31 days that begin on any weekday, December included:   *)
(* the start of the week strictly increases on every pass, at most 6       *)
(* weeks are produced, and the handler reaches its answer.                 *)
(***************************************************************************)
PassIncreases ==
    \A c \in MainCalls :
        month_weeks_pass(c) => call'[c].current_start > call[c].current_start

AtMostSixPasses ==
    \A c \in MainCalls :
        call[c].pc \in {"loop", "answered"} =>
            /\ Len(call[c].passes) <= 6
            /\ call[c].week_number = Len(call[c].passes) + 1
            /\ \A k \in DOMAIN call[c].passes :
                  k > 1 => call[c].passes[k - 1].start < call[c].passes[k].start

C40_PartitionTerminates ==
    /\ [][PassIncreases]_vars
    /\ [](AtMostSixPasses)
    /\ <>(\A c \in MainCalls : call[c].pc = "answered")

\* On 31 December of a year whose December begins on a Saturday, the
\* answer is sent after six passes.
C40_Witness ==
    \E c \in MainCalls :
        /\ call[c].pc = "answered"
        /\ DateMonth(call[c].year, call[c].today) = 12
        /\ call[c].today = YearLength(call[c].year)
        /\ DateWeekday(call[c].year, call[c].first_day_of_month) = 5
        /\ Len(call[c].passes) = 6
        /\ call[c].passes[6].start = call[c].today
        /\ call[c].passes[6].end = call[c].today

====
